---- MODULE Spec2Model ----
(***************************************************************************)
(* Verification model of the LiveAvatar / LiveKit example agents:          *)
(*   - the linear-interpolation resamplers (resample22To24 of the slot     *)
(*     machine agent, AudioResampler.push of LiveAvatarAudioOutput);       *)
(*   - the ttsNode overrides that redirect TTS audio to a WebSocket        *)
(*     (complete agent, slot machine agent, debug interceptor);            *)
(*   - the debug WebSocket server that buffers chunks and writes PCM files.*)
(***************************************************************************)
EXTENDS Integers, Sequences, FiniteSets, TLC

VARIABLES
    \* ---- resampler ----
    rsPc,        \* "ready" | "done"
    rsFn,        \* which resampler ran: "none" | "resample22To24" | "push"
    rsSamples,   \* the input samples (samples / frame.data)
    rsRate,      \* the sample rate of the input (frame.sampleRate), 0 = none
    rsOut,       \* the returned samples
    rsReads,     \* the source indices read: set of <<i, floorIdx, ceilIdx>>
    \* ---- ttsNode overrides ----
    agent,       \* whose ttsNode runs: "complete" | "slotMachine" | "interceptor"
    wsState,     \* ws.readyState: "OPEN" | "CLOSED" (any state but OPEN)
    wsSent,      \* the messages passed to ws.send, in order
    wsSentBy,    \* for each message of wsSent, the ttsNode invocation that sent it
    ttsPc,       \* per invocation: "unused" | "idle" | "reading" | "done" |
                 \*                 "failed" | "null"
    eventId,     \* per invocation: const eventId
    audioBuffer, \* per invocation: let audioBuffer
    ttsRead,     \* per invocation: all samples read from the TTS stream so far
    ttsFrames,   \* per invocation: number of reader.read() results so far
    enqueued,    \* per invocation: frames enqueued on the returned stream
    \* ---- debug server, one connection (sessionData) ----
    events,          \* sessionData.events (without the timestamps)
    audioChunks,     \* sessionData.audioChunks: base64 texts
    totalAudioBytes, \* sessionData.totalAudioBytes
    speaking,        \* sessionData.speaking
    files,           \* the fs.writeFileSync calls: [name, content], in order
    received,        \* number of 'message' events handled so far
    \* ---- custom-room demo: main() of create-room-and-dispatch.ts ----
    mainPc,      \* the await main() is at, "idle" when not run, "done" at the end
    roomName,    \* let roomName
    sessionId,   \* let sessionId
    mainResp,    \* the .ok of the response being read: "none" | "ok" | "notOk"
    mainCalls,    \* the requests attempted so far: <<name, argument, outcome>>
    \* ---- slot machine tool: pullLever of the slot machine agent ----
    pullCount,    \* let pullCount
    slotStarted,  \* number of pullLever calls started since process start
    slotPending,  \* the calls waiting in the 500 ms delay, oldest first
    slotReturns,   \* the results returned so far: <<call number, result>>
    \* ---- LiveAvatarForwarder.waitForAudioTrack ----
    waitPc,           \* "idle" | "poll" | "sleep" | "created" | "timeout"
    attempt,          \* let attempt
    audioPublication, \* let audioPublication: "null" | "undefined" | "audio"
    audioStream,      \* this.audioStream: "null" | "stream"
    trackPublished,   \* the participant has a publication with an audio track
    waitPolls,        \* number of polls of participant.trackPublications
    waitFoundAt,      \* the poll that found the audio publication, 0 = none
    waitClock,         \* milliseconds spent in the retryDelay timers
    \* ---- LiveAvatarAudioOutput / LiveAvatarForwarder: speech events ----
    spClass,      \* the class of the object: "AudioOutput" | "Forwarder"
    isConnected,  \* this.isConnected
    spWs,         \* this.ws: "ws" | "undefined"
    spSocket,     \* the socket's readyState: "OPEN" | "CLOSED"
    spEventId,    \* this.eventId (the n-th generated id), 0 = none
    spIds,        \* number of ids generateEventId has returned
    spSent,       \* the messages the socket has sent, in order
    spCapturing,  \* frames of captureFrame calls awaiting super.captureFrame
    spOps,         \* number of frames, ends and interrupts handled so far
    \* ---- agent entry and the room 'disconnected' handler ----
    entryAgent,    \* "complete" (LiveAvatarAudioOutput) | "dataStream"
    entryPc,       \* the await entry() is at, "registered" once the
                   \* 'disconnected' handler is attached, "rejected" on a throw
    entryError,    \* the error entry() rejected with, "" = none
    roomState,     \* "none" | "connected" | "disconnected"
    laSessionId,   \* this.sessionId / const sessionId: "" = unset
    laStarted,     \* the /sessions/start request has succeeded
    laWs,          \* this.ws: "undefined" | "ws"
    laSocket,      \* the WebSocket: "none" | "OPEN" | "CLOSED"
    entryCalls,    \* the /sessions/stop requests issued: <<session id, outcome>>
    afterStart,    \* 'disconnected' was emitted after the session had started
    greeted,        \* the greeting timer of entry() has fired (session.say)
    \* ---- searchFlights tool ----
    sfPc,       \* "idle" | "ready" | "latency" | "done" | "thrown"
    sfFile,     \* which agent's searchFlights: "toolCalling" | "completeAgent"
    sfArgs,     \* the arguments: [destination, arrivalBefore, maxPrice]
    sfResult,    \* the returned object, <<>> before the return
    \* ---- start-up of the complete agent (entry) and LiveAvatarForwarder.start ----
    suAgent,       \* "none" | "complete" | "forwarder"
    suPc,          \* the await the start-up is at, "done" | "failed" once settled
    suError,       \* the error the start-up failed with, "" if none
    suConfig,      \* LIVE_AVATAR_ID / config.avatarId, "" when unset
    suRequests,    \* the HTTP requests issued: [url, outcome], in order
    suAvatarId,    \* the avatar id chosen, "" before / if none
    suSessionId,   \* tokenData.data.session_id, "" before
    suWsUrl,       \* the WebSocket URL, "" before / if none
    suReturned,    \* <<[sessionId, wsUrl]>> once startLiveAvatarSession returned
    suSocket,      \* "none" | "CONNECTING" | "OPEN" | "CLOSING" | "CLOSED"
    suEmitted,     \* the events the avatar WebSocket emitted, in order
    suConnected,   \* LiveAvatarForwarder.isConnected
    voiceStarted,  \* session.start(...) of the complete agent resolved
    forwarding     \* LiveAvatarForwarder.forwardingTask is set

rsVars == <<rsPc, rsFn, rsSamples, rsRate, rsOut, rsReads>>

ttsVars == <<agent, wsState, wsSent, wsSentBy, ttsPc, eventId, audioBuffer,
             ttsRead, ttsFrames, enqueued>>

srvVars == <<events, audioChunks, totalAudioBytes, speaking, files, received>>

mainVars == <<mainPc, roomName, sessionId, mainResp, mainCalls>>

slotVars == <<pullCount, slotStarted, slotPending, slotReturns>>

waitVars == <<waitPc, attempt, audioPublication, audioStream, trackPublished,
              waitPolls, waitFoundAt, waitClock>>

speechVars == <<spClass, isConnected, spWs, spSocket, spEventId, spIds, spSent,
                spCapturing, spOps>>

entryVars == <<entryAgent, entryPc, entryError, roomState, laSessionId, laStarted, laWs,
               laSocket, entryCalls, afterStart, greeted>>

flightVars == <<sfPc, sfFile, sfArgs, sfResult>>

startVars == <<suAgent, suPc, suError, suConfig, suRequests, suAvatarId, suSessionId,
               suWsUrl, suReturned, suSocket, suEmitted, suConnected, voiceStarted,
               forwarding>>

\* the example scripts and agents besides the three components above
demoVars == <<mainVars, slotVars, waitVars, speechVars, entryVars, flightVars, startVars>>

vars == <<rsVars, ttsVars, srvVars, demoVars>>

(***************************************************************************)
(* Bounds of the model                                                     *)
(***************************************************************************)
MaxLen == 12            \* longest resampler input
MaxFrames == 2          \* most frames the TTS pipeline yields in a run
MaxMsgs == 4            \* most messages one debug-server connection receives
MaxPulls == 21          \* most pullLever calls in a run
MaxPending == 3         \* most pullLever calls in flight at once
MaxOps == 4             \* most frames, ends and interrupts of a speech run

SampleVals == {-40, 40} \* sample values of the resampler inputs

(***************************************************************************)
(* The components are checked one at a time; a component that is not       *)
(* running stays in its idle state.                                        *)
(***************************************************************************)
Inv == {1, 2}                  \* ttsNode invocations (may overlap)
EventIds == {"uuid-a", "uuid-b"}
NoEventId == "none"

RsIdle ==
    /\ rsPc = "idle"
    /\ rsFn = "none"
    /\ rsSamples = <<>>
    /\ rsRate = 0
    /\ rsOut = <<>>
    /\ rsReads = {}

TtsIdle ==
    /\ agent = "none"
    /\ wsState = "CLOSED"
    /\ wsSent = <<>>
    /\ wsSentBy = <<>>
    /\ ttsPc = [i \in Inv |-> "idle"]
    /\ eventId = [i \in Inv |-> NoEventId]
    /\ audioBuffer = [i \in Inv |-> <<>>]
    /\ ttsRead = [i \in Inv |-> <<>>]
    /\ ttsFrames = [i \in Inv |-> 0]
    /\ enqueued = [i \in Inv |-> <<>>]

SrvIdle ==
    /\ events = <<>>
    /\ audioChunks = <<>>
    /\ totalAudioBytes = 0
    /\ speaking = FALSE
    /\ files = <<>>
    /\ received = -1

MainIdle ==
    /\ mainPc = "idle"
    /\ roomName = ""
    /\ sessionId = ""
    /\ mainResp = "none"
    /\ mainCalls = <<>>

SlotIdle ==
    /\ pullCount = -1
    /\ slotStarted = 0
    /\ slotPending = <<>>
    /\ slotReturns = <<>>

WaitIdle ==
    /\ waitPc = "idle"
    /\ attempt = 0
    /\ audioPublication = "null"
    /\ audioStream = "null"
    /\ trackPublished = FALSE
    /\ waitPolls = 0
    /\ waitFoundAt = 0
    /\ waitClock = 0

SpeechIdle ==
    /\ spClass = "none"
    /\ isConnected = FALSE
    /\ spWs = "undefined"
    /\ spSocket = "CLOSED"
    /\ spEventId = 0
    /\ spIds = 0
    /\ spSent = <<>>
    /\ spCapturing = <<>>
    /\ spOps = 0

EntryIdle ==
    /\ entryAgent = "none"
    /\ entryPc = "idle"
    /\ entryError = ""
    /\ roomState = "none"
    /\ laSessionId = ""
    /\ laStarted = FALSE
    /\ laWs = "undefined"
    /\ laSocket = "none"
    /\ entryCalls = <<>>
    /\ afterStart = FALSE
    /\ greeted = FALSE

FlightIdle ==
    /\ sfPc = "idle"
    /\ sfFile = "none"
    /\ sfArgs = <<>>
    /\ sfResult = <<>>

StartIdle ==
    /\ suAgent = "none"
    /\ suPc = "idle"
    /\ suError = ""
    /\ suConfig = ""
    /\ suRequests = <<>>
    /\ suAvatarId = ""
    /\ suSessionId = ""
    /\ suWsUrl = ""
    /\ suReturned = <<>>
    /\ suSocket = "none"
    /\ suEmitted = <<>>
    /\ suConnected = FALSE
    /\ voiceStarted = FALSE
    /\ forwarding = FALSE

DemoIdle == MainIdle /\ SlotIdle /\ WaitIdle /\ SpeechIdle /\ EntryIdle /\ FlightIdle /\ StartIdle

(***************************************************************************)
(* Plain helpers                                                           *)
(***************************************************************************)
Min(a, b) == IF a < b THEN a ELSE b

RECURSIVE Gcd(_, _)
Gcd(a, b) == IF b = 0 THEN a ELSE Gcd(b, a % b)

SeqsUpTo(S, n) == UNION {[1..k -> S] : k \in 0..n}

\* Int16Array element store: wrap to signed 16 bits
ToInt16(x) == ((x + 32768) % 65536) - 32768

(***************************************************************************)
(* resample22To24 (slot machine agent)                                     *)
(*                                                                         *)
(* The code computes in IEEE doubles.  The model computes the same         *)
(* quantities exactly, as fractions over the reduced rates:                *)
(*   ratio        = outputRate / inputRate                                 *)
(*   srcIndex     = i / ratio        = (i * inputRate) / outputRate        *)
(*   fraction     = srcIndex - floor = ((i * inputRate) % outputRate)      *)
(*                                      / outputRate                       *)
(* The double 24000/22050 is slightly above 160/147, so floor(n * ratio)   *)
(* and the rounded sample agree with the exact values, with one exception: *)
(* when the exact interpolated value is a tie k + 1/2, the double may fall *)
(* just below the tie, and Math.round then yields k instead of k + 1.      *)
(* The set `low` of an evaluation names the output indices where it did.   *)
(***************************************************************************)
inputRate == 22050
outputRate == 24000

\* numerator / denominator of a rate pair in lowest terms
RateNum(inR, outR) == inR \div Gcd(inR, outR)
RateDen(inR, outR) == outR \div Gcd(inR, outR)

\* faulty variant: the ratio taken as inR / outR
OutputLengthInverted(n, inR, outR) == (n * RateNum(inR, outR)) \div RateDen(inR, outR)
\* Math.floor(samples.length * ratio), ratio = outR / inR
OutputLength(n, inR, outR) == (n * RateDen(inR, outR)) \div RateNum(inR, outR)

\* Math.floor(i / ratio), i is the 0-based output index
SrcIndexFloor(i, inR, outR) == (i * RateNum(inR, outR)) \div RateDen(inR, outR)

\* faulty variant: the ceiling index wraps to 0 past the end
SrcIndexCeilWrap(i, n, inR, outR) == (SrcIndexFloor(i, inR, outR) + 1) % n
\* Math.min(srcIndexFloor + 1, samples.length - 1)
SrcIndexCeil(i, n, inR, outR) == Min(SrcIndexFloor(i, inR, outR) + 1, n - 1)

\* faulty variant: the weights of the floor and ceiling samples swapped
FractionNumSwapped(i, inR, outR) ==
    RateDen(inR, outR) - ((i * RateNum(inR, outR)) % RateDen(inR, outR))
\* fraction * RateDen: the numerator of srcIndex - srcIndexFloor
FractionNum(i, inR, outR) == (i * RateNum(inR, outR)) % RateDen(inR, outR)

\* faulty variant: the array read 1-based
AtOneBased(samples, k) == IF k \in DOMAIN samples THEN samples[k] ELSE 0
\* samples[k] with a 0-based k; an index outside the array reads undefined,
\* which makes the sample NaN and the stored Int16 value 0
At(samples, k) == IF k + 1 \in DOMAIN samples THEN samples[k + 1] ELSE 0

\* faulty variant: the floor sample keeps its full weight
SampleNumUnweighted(samples, i, inR, outR) ==
    At(samples, SrcIndexFloor(i, inR, outR)) * RateDen(inR, outR)
    + At(samples, SrcIndexCeil(i, Len(samples), inR, outR))
        * FractionNum(i, inR, outR)
\* (samples[floor] * (1 - fraction) + samples[ceil] * fraction) * RateDen
SampleNum(samples, i, inR, outR) ==
    At(samples, SrcIndexFloor(i, inR, outR))
        * (RateDen(inR, outR) - FractionNum(i, inR, outR))
    + At(samples, SrcIndexCeil(i, Len(samples), inR, outR))
        * FractionNum(i, inR, outR)

\* faulty variant: truncation towards zero
RoundTrunc(num, den) == IF num >= 0 THEN num \div den ELSE -((-num) \div den)
\* Math.round(num / den): nearest integer, ties towards +infinity
Round(num, den) == (2 * num + den) \div (2 * den)

\* the exact value num / den lies half way between two integers
IsTie(num, den) == (2 * num + den) % (2 * den) = 0

\* output indices (0-based) whose exact interpolated value is a tie
TieIdx(samples, inR, outR) ==
    {i \in 0..(OutputLength(Len(samples), inR, outR) - 1) :
        IsTie(SampleNum(samples, i, inR, outR), RateDen(inR, outR))}

\* faulty variant: the loop runs one index too far (i <= outputLength)
InterpolateInclusive(samples, inR, outR, low) ==
    [j \in 1..(OutputLength(Len(samples), inR, outR) + 1) |->
        Round(SampleNum(samples, j - 1, inR, outR), RateDen(inR, outR))
            - (IF (j - 1) \in low THEN 1 ELSE 0)]
\* the linear interpolation loop; low = the ties the doubles resolved downwards
Interpolate(samples, inR, outR, low) ==
    [j \in 1..OutputLength(Len(samples), inR, outR) |->
        Round(SampleNum(samples, j - 1, inR, outR), RateDen(inR, outR))
            - (IF (j - 1) \in low THEN 1 ELSE 0)]

resample22To24(samples, low) == Interpolate(samples, inputRate, outputRate, low)

\* the <<i, floor, ceil>> index triples the loop reads
ReadsOf(n, inR, outR) ==
    {<<i, SrcIndexFloor(i, inR, outR), SrcIndexCeil(i, n, inR, outR)>> :
        i \in 0..(OutputLength(n, inR, outR) - 1)}

(***************************************************************************)
(* AudioResampler.push (LiveAvatarAudioOutput), constructed as             *)
(* new AudioResampler(48000, SAMPLE_RATE): ratio = inputRate / outputRate, *)
(* output index i reads input index i * ratio.                             *)
(***************************************************************************)
pushInputRate == 48000
SAMPLE_RATE == 24000

\* faulty variant: no early return for a frame at the output rate
pushAlwaysInterpolates(data, frameRate) ==
    [j \in 1..Len(Interpolate(data, pushInputRate, SAMPLE_RATE, {})) |->
        ToInt16(Interpolate(data, pushInputRate, SAMPLE_RATE, {})[j])]
push(data, frameRate) ==
    IF frameRate = SAMPLE_RATE
    THEN data
    ELSE [j \in 1..Len(Interpolate(data, pushInputRate, SAMPLE_RATE, {})) |->
            ToInt16(Interpolate(data, pushInputRate, SAMPLE_RATE, {})[j])]

(***************************************************************************)
(* Resampler specification: the input is drawn from the bounded set, then  *)
(* one of the two resamplers is applied to it.                             *)
(***************************************************************************)
InitResample ==
    /\ rsPc = "ready"
    /\ rsFn = "none"
    /\ rsSamples \in SeqsUpTo(SampleVals, MaxLen)
    /\ rsRate = 0
    /\ rsOut = <<>>
    /\ rsReads = {}
    /\ TtsIdle
    /\ SrvIdle
    /\ DemoIdle

CallResample22To24 ==
    /\ rsPc = "ready"
    /\ \E low \in SUBSET TieIdx(rsSamples, inputRate, outputRate) :
          rsOut' = resample22To24(rsSamples, low)
    /\ rsReads' = ReadsOf(Len(rsSamples), inputRate, outputRate)
    /\ rsFn' = "resample22To24"
    /\ rsRate' = inputRate
    /\ rsPc' = "done"
    /\ UNCHANGED rsSamples
    /\ UNCHANGED <<ttsVars, srvVars, demoVars>>

CallPush ==
    /\ rsPc = "ready"
    /\ rsOut' = push(rsSamples, pushInputRate)
    /\ rsReads' = ReadsOf(Len(rsSamples), pushInputRate, SAMPLE_RATE)
    /\ rsFn' = "push"
    /\ rsRate' = pushInputRate
    /\ rsPc' = "done"
    /\ UNCHANGED rsSamples
    /\ UNCHANGED <<ttsVars, srvVars, demoVars>>

NextResample == CallResample22To24 \/ CallPush

SpecResample == InitResample /\ [][NextResample]_vars

(***************************************************************************)
(* The resamplers applied to strictly increasing inputs: the ascending     *)
(* enumerations of the subsets of MonoVals, up to MaxLen samples.          *)
(***************************************************************************)
MonoVals == {-120, -40, 0, 1, 2, 3, 100, 200, 300, 340, 380, 420, 1000, 32767}

SetMin(S) == CHOOSE x \in S : \A y \in S : x <= y

RECURSIVE Ascending(_)
Ascending(S) ==
    IF S = {} THEN <<>> ELSE <<SetMin(S)>> \o Ascending(S \ {SetMin(S)})

InitMonotone ==
    /\ rsPc = "ready"
    /\ rsFn = "none"
    /\ \E S \in SUBSET MonoVals :
          /\ Cardinality(S) <= MaxLen
          /\ rsSamples = Ascending(S)
    /\ rsRate = 0
    /\ rsOut = <<>>
    /\ rsReads = {}
    /\ TtsIdle
    /\ SrvIdle
    /\ DemoIdle

SpecMonotone == InitMonotone /\ [][NextResample]_vars

(***************************************************************************)
(* The same resamplers, AudioResampler.push also receiving a frame whose   *)
(* sampleRate already is the output rate (the early return of push).       *)
(***************************************************************************)
CallPushAtOutputRate ==
    /\ rsPc = "ready"
    /\ rsOut' = push(rsSamples, SAMPLE_RATE)
    /\ rsReads' = {}
    /\ rsFn' = "push"
    /\ rsRate' = SAMPLE_RATE
    /\ rsPc' = "done"
    /\ UNCHANGED rsSamples
    /\ UNCHANGED <<ttsVars, srvVars, demoVars>>

NextIdentity == CallResample22To24 \/ CallPush \/ CallPushAtOutputRate

SpecIdentity == InitResample /\ [][NextIdentity]_vars

(***************************************************************************)
(* Encodings: Int16Array -> bytes (little endian) -> base64 text           *)
(* A base64 text is a sequence of sextets 0..63, Pad standing for '='.     *)
(***************************************************************************)
Pad == 64

\* new Int16Array(samples).buffer: two bytes per sample, low byte first
Int16ToBytes(samples) ==
    [b \in 1..(2 * Len(samples)) |->
        LET u == ToInt16(samples[(b + 1) \div 2]) % 65536
        IN IF b % 2 = 1 THEN u % 256 ELSE u \div 256]

\* the samples of a PCM 16-bit little-endian byte sequence
BytesToInt16(bytes) ==
    [k \in 1..(Len(bytes) \div 2) |->
        ToInt16(bytes[2 * k - 1] + 256 * bytes[2 * k])]

ByteAt(bytes, k) == IF k <= Len(bytes) THEN bytes[k] ELSE 0

\* Buffer.toString('base64')
Base64Encode(bytes) ==
    [p \in 1..(4 * ((Len(bytes) + 2) \div 3)) |->
        LET g  == (p - 1) \div 4
            r  == (p - 1) % 4
            b0 == ByteAt(bytes, 3 * g + 1)
            b1 == ByteAt(bytes, 3 * g + 2)
            b2 == ByteAt(bytes, 3 * g + 3)
        IN CASE r = 0 -> b0 \div 4
             [] r = 1 -> (b0 % 4) * 16 + b1 \div 16
             [] r = 2 -> IF 3 * g + 2 > Len(bytes) THEN Pad
                         ELSE (b1 % 16) * 4 + b2 \div 64
             [] r = 3 -> IF 3 * g + 3 > Len(bytes) THEN Pad
                         ELSE b2 % 64]

\* Buffer.from(text, 'base64'): decoding stops at the padding
Base64Decode(text) ==
    LET m == Cardinality({p \in 1..Len(text) : text[p] # Pad})
    IN [q \in 1..((m * 3) \div 4) |->
        LET g  == (q - 1) \div 3
            r  == (q - 1) % 3
            c0 == text[4 * g + 1]
            c1 == text[4 * g + 2]
            c2 == IF r >= 1 THEN text[4 * g + 3] ELSE 0
            c3 == IF r = 2 THEN text[4 * g + 4] ELSE 0
        IN CASE r = 0 -> c0 * 4 + c1 \div 16
             [] r = 1 -> (c1 % 16) * 16 + c2 \div 4
             [] r = 2 -> (c2 % 4) * 64 + c3]

(***************************************************************************)
(* ttsNode of LiveAvatarPipelineAgent (complete agent, slot machine agent) *)
(* and of CustomAgent (debug interceptor).  One invocation runs from the   *)
(* call of ttsNode to the end of the start() callback of the stream it     *)
(* returns; it gives up control only at `await reader.read()`.             *)
(***************************************************************************)
Agents == {"complete", "slotMachine", "interceptor"}
ChunkSize == 2400

FrameLens == {1200, 3600}   \* samples per frame of the TTS stream

\* the p-th sample of the TTS stream of invocation i; all samples are
\* congruent modulo 160, which keeps resample22To24 free of rounding ties
SampleAt(i, p) == 160 * (((p * 37 + i * 11) % 401) - 200) + 7

\* crypto.randomUUID(): a value no earlier call returned
RandomUUID == EventIds \ {eventId[j] : j \in Inv}

\* the base64 audio of one agent.speak message
AudioOf(a, chunk) ==
    IF a = "slotMachine"
    THEN Base64Encode(Int16ToBytes(resample22To24(chunk, {})))
    ELSE Base64Encode(Int16ToBytes(chunk))

SpeakStarted(id) == [type |-> "agent.speak_started", event_id |-> id]
Speak(id, audio) == [type |-> "agent.speak", event_id |-> id, audio |-> audio]
SpeakEnd(id) == [type |-> "agent.speak_end", event_id |-> id]

\* faulty variant: the whole buffer is sent as one chunk
RECURSIVE DrainWhole(_, _)
DrainWhole(buf, open) ==
    IF Len(buf) >= ChunkSize /\ open
    THEN [chunks |-> <<buf>>, rest |-> <<>>]
    ELSE [chunks |-> <<>>, rest |-> buf]

\* faulty variant: what is left after the loop is discarded
RECURSIVE DrainDropRest(_, _)
DrainDropRest(buf, open) ==
    IF Len(buf) >= ChunkSize /\ open
    THEN LET d == DrainDropRest(SubSeq(buf, ChunkSize + 1, Len(buf)), open)
         IN [chunks |-> <<SubSeq(buf, 1, ChunkSize)>> \o d.chunks, rest |-> d.rest]
    ELSE [chunks |-> <<>>, rest |-> <<>>]

\* while (audioBuffer.length >= 2400 && ws open) { splice(0, 2400); send }
RECURSIVE Drain(_, _)
Drain(buf, open) ==
    IF Len(buf) >= ChunkSize /\ open
    THEN LET d == Drain(SubSeq(buf, ChunkSize + 1, Len(buf)), open)
         IN [chunks |-> <<SubSeq(buf, 1, ChunkSize)>> \o d.chunks, rest |-> d.rest]
    ELSE [chunks |-> <<>>, rest |-> buf]

\* faulty variant: controller.enqueue(frame) is executed
PassThroughEnqueue(queue, frame) == Append(queue, frame)
\* controller.enqueue(frame) is commented out: the frame is not passed on
PassThrough(queue, frame) == queue

\* faulty variant: the id is a field shared by all invocations
EventIdOfLatest(i) ==
    IF \E j \in Inv : j > i /\ eventId[j] # NoEventId
    THEN eventId[CHOOSE j \in Inv : j > i /\ eventId[j] # NoEventId]
    ELSE eventId[i]
\* the id the messages of invocation i carry: the const captured by start()
EventIdOf(i) == eventId[i]

\* which agents send the buffered remainder / the end event after the loop
SendsRemainder(a) == a \in {"complete", "slotMachine"}
SendsEnd(a) == a \in {"complete", "interceptor"}

\* the messages sent once reader.read() reports done: the buffered remainder
\* (if any, and if this agent sends it), then the end event (if this agent
\* sends it), each only while the socket is open
\* (DoneMsgsEndFirst: faulty variant, the end event precedes the remainder)
DoneMsgsEndFirst(a, id, buf, open) ==
    (IF SendsEnd(a) /\ open THEN <<SpeakEnd(id)>> ELSE <<>>)
    \o (IF SendsRemainder(a) /\ Len(buf) > 0 /\ open
        THEN <<Speak(id, AudioOf(a, buf))>> ELSE <<>>)
DoneMsgs(a, id, buf, open) ==
    (IF SendsRemainder(a) /\ Len(buf) > 0 /\ open
     THEN <<Speak(id, AudioOf(a, buf))>> ELSE <<>>)
    \o (IF SendsEnd(a) /\ open THEN <<SpeakEnd(id)>> ELSE <<>>)

\* frames read so far, over all invocations
FramesRead == ttsFrames[1] + ttsFrames[2]

\* entry() awaits the 'open' event of agent.ws before it starts the session.
\* One utterance of any of the three agents.
InitTts ==
    /\ agent \in Agents
    /\ wsState = "OPEN"
    /\ wsSent = <<>>
    /\ wsSentBy = <<>>
    /\ ttsPc = [i \in Inv |-> IF i = 1 THEN "idle" ELSE "unused"]
    /\ eventId = [i \in Inv |-> NoEventId]
    /\ audioBuffer = [i \in Inv |-> <<>>]
    /\ ttsRead = [i \in Inv |-> <<>>]
    /\ ttsFrames = [i \in Inv |-> 0]
    /\ enqueued = [i \in Inv |-> <<>>]
    /\ RsIdle
    /\ SrvIdle
    /\ DemoIdle

Send(i, msgs) ==
    /\ wsSent' = wsSent \o msgs
    /\ wsSentBy' = wsSentBy \o [k \in 1..Len(msgs) |-> i]

\* ttsNode up to the first await of start(): the default pipeline returned a
\* stream; eventId is drawn, agent.speak_started is sent if the socket is open
TtsNode(i) ==
    /\ ttsPc[i] = "idle"
    /\ \A j \in Inv : j < i => ttsPc[j] # "idle"
    /\ \E id \in RandomUUID :
        /\ eventId' = [eventId EXCEPT ![i] = id]
        /\ Send(i, IF wsState = "OPEN" THEN <<SpeakStarted(id)>> ELSE <<>>)
    /\ ttsPc' = [ttsPc EXCEPT ![i] = "reading"]
    /\ UNCHANGED <<agent, wsState, audioBuffer, ttsRead, ttsFrames, enqueued>>
    /\ UNCHANGED <<rsVars, srvVars, demoVars>>

\* the default pipeline returned no stream: ttsNode returns null
TtsNodeNull(i) ==
    /\ ttsPc[i] = "idle"
    /\ \A j \in Inv : j < i => ttsPc[j] # "idle"
    /\ ttsPc' = [ttsPc EXCEPT ![i] = "null"]
    /\ UNCHANGED <<agent, wsState, wsSent, wsSentBy, eventId, audioBuffer,
                   ttsRead, ttsFrames, enqueued>>
    /\ UNCHANGED <<rsVars, srvVars, demoVars>>

\* reader.read() yields a frame with data: buffer it and send full chunks
ReadFrame(i) ==
    /\ ttsPc[i] = "reading"
    /\ FramesRead < MaxFrames
    /\ \E len \in FrameLens :
        LET samples == [k \in 1..len |-> SampleAt(i, Len(ttsRead[i]) + k)]
            d == Drain(audioBuffer[i] \o samples, wsState = "OPEN")
        IN /\ ttsRead' = [ttsRead EXCEPT ![i] = @ \o samples]
           /\ audioBuffer' = [audioBuffer EXCEPT ![i] = d.rest]
           /\ Send(i, [k \in 1..Len(d.chunks) |->
                          Speak(EventIdOf(i), AudioOf(agent, d.chunks[k]))])
           /\ enqueued' = [enqueued EXCEPT ![i] = PassThrough(@, samples)]
    /\ ttsFrames' = [ttsFrames EXCEPT ![i] = @ + 1]
    /\ UNCHANGED <<agent, wsState, ttsPc, eventId>>
    /\ UNCHANGED <<rsVars, srvVars, demoVars>>

\* reader.read() yields a value without data: nothing is buffered or sent
ReadNoData(i) ==
    /\ ttsPc[i] = "reading"
    /\ FramesRead < MaxFrames
    /\ ttsFrames' = [ttsFrames EXCEPT ![i] = @ + 1]
    /\ UNCHANGED <<agent, wsState, wsSent, wsSentBy, ttsPc, eventId,
                   audioBuffer, ttsRead, enqueued>>
    /\ UNCHANGED <<rsVars, srvVars, demoVars>>

\* reader.read() yields done: the remainder and the end event are sent (by
\* the agents that send them), then the returned stream is closed
ReadDone(i) ==
    /\ ttsPc[i] = "reading"
    /\ Send(i, DoneMsgs(agent, EventIdOf(i), audioBuffer[i], wsState = "OPEN"))
    /\ ttsPc' = [ttsPc EXCEPT ![i] = "done"]
    /\ UNCHANGED <<agent, wsState, eventId, audioBuffer, ttsRead, ttsFrames,
                   enqueued>>
    /\ UNCHANGED <<rsVars, srvVars, demoVars>>

\* reader.read() rejects: only the finally block runs
ReadError(i) ==
    /\ ttsPc[i] = "reading"
    /\ ttsPc' = [ttsPc EXCEPT ![i] = "failed"]
    /\ UNCHANGED <<agent, wsState, wsSent, wsSentBy, eventId, audioBuffer,
                   ttsRead, ttsFrames, enqueued>>
    /\ UNCHANGED <<rsVars, srvVars, demoVars>>

\* the socket leaves the OPEN state (it never returns to it)
WsClosed ==
    /\ wsState = "OPEN"
    /\ wsState' = "CLOSED"
    /\ UNCHANGED <<agent, wsSent, wsSentBy, ttsPc, eventId, audioBuffer,
                   ttsRead, ttsFrames, enqueued>>
    /\ UNCHANGED <<rsVars, srvVars, demoVars>>

NextTts ==
    \/ \E i \in Inv : TtsNode(i)
    \/ \E i \in Inv : TtsNodeNull(i)
    \/ \E i \in Inv : ReadFrame(i)
    \/ \E i \in Inv : ReadNoData(i)
    \/ \E i \in Inv : ReadDone(i)
    \/ \E i \in Inv : ReadError(i)
    \/ WsClosed

SpecTts == InitTts /\ [][NextTts]_vars

\* Two utterances of the complete agent whose invocations may overlap
InitTtsOverlap ==
    /\ agent = "complete"
    /\ wsState = "OPEN"
    /\ wsSent = <<>>
    /\ wsSentBy = <<>>
    /\ ttsPc = [i \in Inv |-> "idle"]
    /\ eventId = [i \in Inv |-> NoEventId]
    /\ audioBuffer = [i \in Inv |-> <<>>]
    /\ ttsRead = [i \in Inv |-> <<>>]
    /\ ttsFrames = [i \in Inv |-> 0]
    /\ enqueued = [i \in Inv |-> <<>>]
    /\ RsIdle
    /\ SrvIdle
    /\ DemoIdle

SpecTtsOverlap == InitTtsOverlap /\ [][NextTts]_vars

(***************************************************************************)
(* Debug server: the 'message' handler of one WebSocket connection         *)
(***************************************************************************)
SrvEventIds == {"e1", "e2"}

\* the PCM byte sequences the received agent.speak messages carry
SrvAudio == {<<7>>, <<255, 0, 16, 128>>}

\* message types the handler only logs
LoggedTypes == {"user.speak_started", "mystery"}

RECURSIVE ConcatAll(_)
ConcatAll(seqs) ==
    IF seqs = <<>> THEN <<>> ELSE Head(seqs) \o ConcatAll(Tail(seqs))

\* faulty variant: only the last chunk is saved
FullAudioLastOnly(chunks) == Base64Decode(chunks[Len(chunks)])
\* Buffer.concat(audioChunks.map(chunk => Buffer.from(chunk, 'base64')))
FullAudio(chunks) ==
    ConcatAll([k \in 1..Len(chunks) |-> Base64Decode(chunks[k])])

\* path.join(debugDir, `audio_${sessionId}_${data.event_id}.pcm`)
AudioFile(id) == <<"audio", "session", id, "pcm">>

InitSrv ==
    /\ events = <<>>
    /\ audioChunks = <<>>
    /\ totalAudioBytes = 0
    /\ speaking = FALSE
    /\ files = <<>>
    /\ received = 0
    /\ RsIdle
    /\ TtsIdle
    /\ DemoIdle

\* faulty variant: a parse failure also drops the buffered audio
OnUnparsableResets ==
    /\ received \in 0..(MaxMsgs - 1)
    /\ received' = received + 1
    /\ audioChunks' = <<>>
    /\ totalAudioBytes' = 0
    /\ speaking' = FALSE
    /\ UNCHANGED <<events, files>>
    /\ UNCHANGED <<rsVars, ttsVars, demoVars>>

\* JSON.parse throws: the catch block logs, nothing else happens
OnUnparsable ==
    /\ received \in 0..(MaxMsgs - 1)
    /\ received' = received + 1
    /\ UNCHANGED <<events, audioChunks, totalAudioBytes, speaking, files>>
    /\ UNCHANGED <<rsVars, ttsVars, demoVars>>

\* case 'agent.speak_started'
OnSpeakStarted(id) ==
    /\ received \in 0..(MaxMsgs - 1)
    /\ received' = received + 1
    /\ events' = Append(events, SpeakStarted(id))
    /\ speaking' = TRUE
    /\ UNCHANGED <<audioChunks, totalAudioBytes, files>>
    /\ UNCHANGED <<rsVars, ttsVars, demoVars>>

\* case 'agent.speak', data.audio a base64 text
OnSpeak(id, audio) ==
    /\ received \in 0..(MaxMsgs - 1)
    /\ received' = received + 1
    /\ events' = Append(events, Speak(id, audio))
    /\ audioChunks' = Append(audioChunks, audio)
    /\ totalAudioBytes' = totalAudioBytes + Len(Base64Decode(audio))
    /\ UNCHANGED <<speaking, files>>
    /\ UNCHANGED <<rsVars, ttsVars, demoVars>>

\* case 'agent.speak' without data.audio: Buffer.from(undefined, 'base64')
\* throws after the event was recorded, the catch block logs
OnSpeakNoAudio(id) ==
    /\ received \in 0..(MaxMsgs - 1)
    /\ received' = received + 1
    /\ events' = Append(events, [type |-> "agent.speak", event_id |-> id])
    /\ UNCHANGED <<audioChunks, totalAudioBytes, speaking, files>>
    /\ UNCHANGED <<rsVars, ttsVars, demoVars>>

\* case 'agent.speak_end'
OnSpeakEnd(id) ==
    /\ received \in 0..(MaxMsgs - 1)
    /\ received' = received + 1
    /\ events' = Append(events, SpeakEnd(id))
    /\ IF Len(audioChunks) > 0
       THEN /\ files' = Append(files, [name |-> AudioFile(id),
                                       content |-> FullAudio(audioChunks)])
            /\ audioChunks' = <<>>
            /\ totalAudioBytes' = 0
       ELSE UNCHANGED <<files, audioChunks, totalAudioBytes>>
    /\ speaking' = FALSE
    /\ UNCHANGED <<rsVars, ttsVars, demoVars>>

\* the cases that only log, and the default case
OnLogged(type) ==
    /\ received \in 0..(MaxMsgs - 1)
    /\ received' = received + 1
    /\ events' = Append(events, [type |-> type])
    /\ UNCHANGED <<audioChunks, totalAudioBytes, speaking, files>>
    /\ UNCHANGED <<rsVars, ttsVars, demoVars>>

NextSrv ==
    \/ OnUnparsable
    \/ \E id \in SrvEventIds : OnSpeakStarted(id)
    \/ \E id \in SrvEventIds : \E bytes \in SrvAudio : OnSpeak(id, Base64Encode(bytes))
    \/ \E id \in SrvEventIds : OnSpeakNoAudio(id)
    \/ \E id \in SrvEventIds : OnSpeakEnd(id)
    \/ \E type \in LoggedTypes : OnLogged(type)

SpecSrv == InitSrv /\ [][NextSrv]_vars

(***************************************************************************)
(* main() of the custom-room demo (create-room-and-dispatch.ts).           *)
(* One action per await; a request either resolves ("ok" / "notOk" for the *)
(* response's .ok) or rejects ("throws").  A throw inside the try block    *)
(* is caught and logged, and control continues with the finally block.     *)
(***************************************************************************)
RoomNameValue == "liveavatar-test-1"        \* `liveavatar-test-${Date.now()}`
\* tokenData.data?.session_id: an id, or undefined / empty
SessionIdValues == {"session-1", "undefined", ""}

\* JavaScript truthiness of a string-or-undefined value
Truthy(x) == x \notin {"", "undefined"}

Called(name, arg, outcome) ==
    mainCalls' = Append(mainCalls, <<name, arg, outcome>>)

\* what is left unchanged by every step of main
MainRest == <<rsVars, ttsVars, srvVars, slotVars, waitVars, speechVars, entryVars, flightVars, startVars>>
MainRestIdle == RsIdle /\ TtsIdle /\ SrvIdle /\ SlotIdle /\ WaitIdle /\ SpeechIdle /\ EntryIdle /\ FlightIdle /\ StartIdle

InitMain ==
    /\ mainPc = "newRoomService"
    /\ roomName = ""
    /\ sessionId = ""
    /\ mainResp = "none"
    /\ mainCalls = <<>>
    /\ MainRestIdle

\* new RoomServiceClient(...); roomName = `liveavatar-test-${Date.now()}`
NewRoomService ==
    /\ mainPc = "newRoomService"
    /\ \E o \in {"ok", "throws"} :
        /\ Called("RoomServiceClient", "", o)
        /\ roomName' = IF o = "ok" THEN RoomNameValue ELSE roomName
        /\ mainPc' = IF o = "ok" THEN "createRoom" ELSE "cleanup"
    /\ UNCHANGED <<sessionId, mainResp>>
    /\ UNCHANGED MainRest

\* await roomService.createRoom({ name: roomName, ... })
CreateRoom ==
    /\ mainPc = "createRoom"
    /\ \E o \in {"ok", "throws"} :
        /\ Called("createRoom", roomName, o)
        /\ mainPc' = IF o = "ok" THEN "toJwt" ELSE "cleanup"
    /\ UNCHANGED <<roomName, sessionId, mainResp>>
    /\ UNCHANGED MainRest

\* await token.toJwt()
ToJwt ==
    /\ mainPc = "toJwt"
    /\ \E o \in {"ok", "throws"} :
        /\ Called("toJwt", "test-participant", o)
        /\ mainPc' = IF o = "ok" THEN "waitJoined" ELSE "cleanup"
    /\ UNCHANGED <<roomName, sessionId, mainResp>>
    /\ UNCHANGED MainRest

\* await waitForEnter(), after the join link was printed
WaitJoined ==
    /\ mainPc = "waitJoined"
    /\ mainPc' = "fetchAvatars"
    /\ UNCHANGED <<roomName, sessionId, mainResp, mainCalls>>
    /\ UNCHANGED MainRest

\* await fetch('.../v1/avatars/public'); if (!avatarsResponse.ok) throw
FetchAvatars ==
    /\ mainPc = "fetchAvatars"
    /\ \E o \in {"ok", "notOk", "throws"} :
        /\ Called("avatars/public", "", o)
        /\ mainPc' = IF o = "ok" THEN "avatarsJson" ELSE "cleanup"
    /\ UNCHANGED <<roomName, sessionId, mainResp>>
    /\ UNCHANGED MainRest

\* await avatarsResponse.json(); no ACTIVE avatar: throw
AvatarsJson ==
    /\ mainPc = "avatarsJson"
    /\ \E o \in {"active", "noActive", "throws"} :
        mainPc' = IF o = "active" THEN "avatarToJwt" ELSE "cleanup"
    /\ UNCHANGED <<roomName, sessionId, mainResp, mainCalls>>
    /\ UNCHANGED MainRest

\* await avatarToken.toJwt()
AvatarToJwt ==
    /\ mainPc = "avatarToJwt"
    /\ \E o \in {"ok", "throws"} :
        /\ Called("toJwt", "liveavatar-bot", o)
        /\ mainPc' = IF o = "ok" THEN "fetchToken" ELSE "cleanup"
    /\ UNCHANGED <<roomName, sessionId, mainResp>>
    /\ UNCHANGED MainRest

\* await fetch('.../v1/sessions/token', ...)
FetchToken ==
    /\ mainPc = "fetchToken"
    /\ \E o \in {"ok", "notOk", "throws"} :
        /\ Called("sessions/token", roomName, o)
        /\ mainResp' = IF o = "throws" THEN "none" ELSE o
        /\ mainPc' = IF o = "throws" THEN "cleanup" ELSE "tokenJson"
    /\ UNCHANGED <<roomName, sessionId>>
    /\ UNCHANGED MainRest

\* await tokenResponse.json(); if (!tokenResponse.ok) throw;
\* sessionId = tokenData.data?.session_id
TokenJson ==
    /\ mainPc = "tokenJson"
    /\ \/ /\ mainResp = "ok"
          /\ \E id \in SessionIdValues : sessionId' = id
          /\ mainPc' = "fetchStart"
       \/ /\ mainPc' = "cleanup"       \* json() rejects, or the response is not ok
          /\ UNCHANGED sessionId
    /\ mainResp' = "none"
    /\ UNCHANGED <<roomName, mainCalls>>
    /\ UNCHANGED MainRest

\* await fetch('.../v1/sessions/start', ...)
FetchStart ==
    /\ mainPc = "fetchStart"
    /\ \E o \in {"ok", "notOk", "throws"} :
        /\ Called("sessions/start", "", o)
        /\ mainResp' = IF o = "throws" THEN "none" ELSE o
        /\ mainPc' = IF o = "throws" THEN "cleanup" ELSE "startJson"
    /\ UNCHANGED <<roomName, sessionId>>
    /\ UNCHANGED MainRest

\* await startResponse.json(); if (startResponse.ok) await waitForEnter()
\* else the failure is logged; either way the try block ends
StartJson ==
    /\ mainPc = "startJson"
    /\ \E o \in {"ok", "throws"} :
        mainPc' = IF o = "ok" /\ mainResp = "ok" THEN "waitTested" ELSE "cleanup"
    /\ mainResp' = "none"
    /\ UNCHANGED <<roomName, sessionId, mainCalls>>
    /\ UNCHANGED MainRest

\* await waitForEnter(), after the session started
WaitTested ==
    /\ mainPc = "waitTested"
    /\ mainPc' = "cleanup"
    /\ UNCHANGED <<roomName, sessionId, mainResp, mainCalls>>
    /\ UNCHANGED MainRest

\* faulty variant: a rejected stop request leaves the finally block
StopSessionUncaught ==
    /\ mainPc = "cleanup"
    /\ Truthy(sessionId)
    /\ \E o \in {"ok", "notOk", "throws"} :
        /\ Called("sessions/stop", sessionId, o)
        /\ mainPc' = IF o = "throws" THEN "done" ELSE "deleteRoom"
    /\ UNCHANGED <<roomName, sessionId, mainResp>>
    /\ UNCHANGED MainRest
\* finally: if (sessionId) { try { await fetch('.../v1/sessions/stop') }
\* catch { log } }
StopSession ==
    /\ mainPc = "cleanup"
    /\ Truthy(sessionId)
    /\ \E o \in {"ok", "notOk", "throws"} :
        Called("sessions/stop", sessionId, o)
    /\ mainPc' = "deleteRoom"
    /\ UNCHANGED <<roomName, sessionId, mainResp>>
    /\ UNCHANGED MainRest

\* finally: sessionId is falsy, no stop request
SkipStopSession ==
    /\ mainPc = "cleanup"
    /\ ~Truthy(sessionId)
    /\ mainPc' = "deleteRoom"
    /\ UNCHANGED <<roomName, sessionId, mainResp, mainCalls>>
    /\ UNCHANGED MainRest

\* finally: if (roomName) { try { await roomService.deleteRoom(roomName) }
\* catch { log } }
DeleteRoom ==
    /\ mainPc = "deleteRoom"
    /\ Truthy(roomName)
    /\ \E o \in {"ok", "throws"} : Called("deleteRoom", roomName, o)
    /\ mainPc' = "done"
    /\ UNCHANGED <<roomName, sessionId, mainResp>>
    /\ UNCHANGED MainRest

\* finally: roomName is still '', nothing to delete
SkipDeleteRoom ==
    /\ mainPc = "deleteRoom"
    /\ ~Truthy(roomName)
    /\ mainPc' = "done"
    /\ UNCHANGED <<roomName, sessionId, mainResp, mainCalls>>
    /\ UNCHANGED MainRest

NextMain ==
    \/ NewRoomService \/ CreateRoom \/ ToJwt \/ WaitJoined
    \/ FetchAvatars \/ AvatarsJson \/ AvatarToJwt
    \/ FetchToken \/ TokenJson \/ FetchStart \/ StartJson \/ WaitTested
    \/ StopSession \/ SkipStopSession \/ DeleteRoom \/ SkipDeleteRoom

SpecMain == InitMain /\ [][NextMain]_vars

(***************************************************************************)
(* pullLever (slot machine agent).  execute is async: it increments        *)
(* pullCount, waits 500 ms, then tests and possibly resets pullCount.      *)
(* Calls may overlap (tool calls issued together); the equal timers fire   *)
(* in the order they were set, so the calls resume oldest first.           *)
(***************************************************************************)
PULLS_TO_WIN == 10

SlotRest == <<rsVars, ttsVars, srvVars, mainVars, waitVars, speechVars, entryVars, flightVars, startVars>>
SlotRestIdle == RsIdle /\ TtsIdle /\ SrvIdle /\ MainIdle /\ WaitIdle /\ SpeechIdle /\ EntryIdle /\ FlightIdle /\ StartIdle

InitSlot ==
    /\ pullCount = 0
    /\ slotStarted = 0
    /\ slotPending = <<>>
    /\ slotReturns = <<>>
    /\ SlotRestIdle

\* execute up to the await: pullCount++
PullStart ==
    /\ pullCount >= 0
    /\ slotStarted < MaxPulls
    /\ Len(slotPending) < MaxPending
    /\ pullCount' = pullCount + 1
    /\ slotStarted' = slotStarted + 1
    /\ slotPending' = Append(slotPending, slotStarted + 1)
    /\ UNCHANGED slotReturns
    /\ UNCHANGED SlotRest

\* execute after the await: the test of pullCount, the reset, the result
PullResume ==
    /\ slotPending # <<>>
    /\ IF pullCount >= PULLS_TO_WIN
       THEN /\ pullCount' = 0
            /\ slotReturns' =
                  Append(slotReturns, <<Head(slotPending), "Jackpot! You win!">>)
       ELSE /\ pullCount' = pullCount
            /\ slotReturns' =
                  Append(slotReturns, <<Head(slotPending), "Not done yet">>)
    /\ slotPending' = Tail(slotPending)
    /\ UNCHANGED slotStarted
    /\ UNCHANGED SlotRest

NextSlot == PullStart \/ PullResume

SpecSlot == InitSlot /\ [][NextSlot]_vars

(***************************************************************************)
(* LiveAvatarForwarder.waitForAudioTrack: a for loop of maxAttempts polls  *)
(* with a retryDelay timer between them; the agent publishes (or           *)
(* unpublishes) its audio track at any moment.                             *)
(***************************************************************************)
maxAttempts == 100
retryDelay == 100

WaitRest == <<rsVars, ttsVars, srvVars, mainVars, slotVars, speechVars, entryVars, flightVars, startVars>>
WaitRestIdle == RsIdle /\ TtsIdle /\ SrvIdle /\ MainIdle /\ SlotIdle /\ SpeechIdle /\ EntryIdle /\ FlightIdle /\ StartIdle

InitWait ==
    /\ waitPc = "poll"
    /\ attempt = 0
    /\ audioPublication = "null"
    /\ audioStream = "null"
    /\ trackPublished \in BOOLEAN
    /\ waitPolls = 0
    /\ waitFoundAt = 0
    /\ waitClock = 0
    /\ WaitRestIdle

\* the loop body up to the await: find the audio publication; when found,
\* break, pass the check after the loop and create the AudioStream
Poll ==
    /\ waitPc = "poll"
    /\ waitPolls' = waitPolls + 1
    /\ IF trackPublished
       THEN /\ audioPublication' = "audio"
            /\ waitFoundAt' = waitPolls + 1
            /\ audioStream' = "stream"
            /\ waitPc' = "created"
       ELSE /\ audioPublication' = "undefined"
            /\ waitPc' = "sleep"
            /\ UNCHANGED <<waitFoundAt, audioStream>>
    /\ UNCHANGED <<attempt, trackPublished, waitClock>>
    /\ UNCHANGED WaitRest

\* faulty variant: the loop condition attempt <= maxAttempts
SleepOneMore ==
    /\ waitPc = "sleep"
    /\ attempt' = attempt + 1
    /\ waitClock' = waitClock + retryDelay
    /\ waitPc' = IF attempt + 1 <= maxAttempts THEN "poll" ELSE "timeout"
    /\ UNCHANGED <<audioPublication, audioStream, trackPublished, waitPolls,
                   waitFoundAt>>
    /\ UNCHANGED WaitRest
\* the retryDelay timer fires: attempt++, then the loop condition; when the
\* loop ends without a publication the timeout error is thrown
Sleep ==
    /\ waitPc = "sleep"
    /\ attempt' = attempt + 1
    /\ waitClock' = waitClock + retryDelay
    /\ waitPc' = IF attempt + 1 < maxAttempts THEN "poll" ELSE "timeout"
    /\ UNCHANGED <<audioPublication, audioStream, trackPublished, waitPolls,
                   waitFoundAt>>
    /\ UNCHANGED WaitRest

\* the agent publishes its audio track
PublishTrack ==
    /\ waitPc \in {"poll", "sleep"}
    /\ ~trackPublished
    /\ trackPublished' = TRUE
    /\ UNCHANGED <<waitPc, attempt, audioPublication, audioStream, waitPolls,
                   waitFoundAt, waitClock>>
    /\ UNCHANGED WaitRest

\* the agent unpublishes its audio track
UnpublishTrack ==
    /\ waitPc \in {"poll", "sleep"}
    /\ trackPublished
    /\ trackPublished' = FALSE
    /\ UNCHANGED <<waitPc, attempt, audioPublication, audioStream, waitPolls,
                   waitFoundAt, waitClock>>
    /\ UNCHANGED WaitRest

NextWait == Poll \/ Sleep \/ PublishTrack \/ UnpublishTrack

SpecWait == InitWait /\ [][NextWait]_vars

(***************************************************************************)
(* Speech events of LiveAvatarAudioOutput (captureFrame / flush /          *)
(* clearBuffer) and LiveAvatarForwarder (forwardAudio / onSpeechEnd /      *)
(* onInterrupt), from the moment start() has connected the WebSocket.      *)
(* generateEventId returns `evt_${Date.now()}_${random}`: a fresh id, the  *)
(* n-th one being modelled as the number n.                                *)
(***************************************************************************)
SpeechClasses == {"AudioOutput", "Forwarder"}
SpeechFrames == {<<100, -200, 300, -400>>, <<7, 8>>}   \* frame.data at 48 kHz

SpeechRest == <<rsVars, ttsVars, srvVars, mainVars, slotVars, waitVars, entryVars, flightVars, startVars>>
SpeechRestIdle == RsIdle /\ TtsIdle /\ SrvIdle /\ MainIdle /\ SlotIdle /\ WaitIdle /\ EntryIdle /\ FlightIdle /\ StartIdle

\* forwardAudio: every resampleRatio-th sample (resampleRatio = 2)
resampleRatio == 2
Downsample(data) ==
    [j \in 1..(Len(data) \div resampleRatio) |-> data[(j - 1) * resampleRatio + 1]]

\* the agent.speak message of a frame
SpeakMsg(class, data, id) ==
    [type |-> "agent.speak",
     event_id |-> id,
     audio |-> IF class = "AudioOutput"
               THEN Base64Encode(Int16ToBytes(push(data, pushInputRate)))
               ELSE Base64Encode(Int16ToBytes(Downsample(data)))]

\* the agent.speak_end / agent.interrupt message
EndMsg(type, id) == [type |-> type, event_id |-> id, audio |-> <<>>]

\* ws.send: a socket that is no longer open sends nothing
WsSend(msg) ==
    spSent' = IF spSocket = "OPEN" THEN Append(spSent, msg) ELSE spSent

InitSpeech ==
    /\ spClass \in SpeechClasses
    /\ isConnected = TRUE
    /\ spWs = "ws"
    /\ spSocket = "OPEN"
    /\ spEventId = 1
    /\ spIds = 1
    /\ spSent = <<>>
    /\ spCapturing = <<>>
    /\ spOps = 0
    /\ SpeechRestIdle

\* captureFrame up to `await super.captureFrame(frame)`
CaptureFrame(data) ==
    /\ spClass = "AudioOutput"
    /\ spOps < MaxOps
    /\ spOps' = spOps + 1
    /\ spCapturing' = Append(spCapturing, data)
    /\ UNCHANGED <<spClass, isConnected, spWs, spSocket, spEventId, spIds, spSent>>
    /\ UNCHANGED SpeechRest

\* captureFrame after the await: drop the frame when not connected, else
\* resample, encode and send it with the current this.eventId
CaptureFrameSend ==
    /\ spClass = "AudioOutput"
    /\ spCapturing # <<>>
    /\ spCapturing' = Tail(spCapturing)
    /\ IF isConnected /\ spWs = "ws"
       THEN WsSend(SpeakMsg(spClass, Head(spCapturing), spEventId))
       ELSE UNCHANGED spSent
    /\ UNCHANGED <<spClass, isConnected, spWs, spSocket, spEventId, spIds, spOps>>
    /\ UNCHANGED SpeechRest

\* forwardAudio: one iteration of the for-await loop
ForwardAudio(data) ==
    /\ spClass = "Forwarder"
    /\ spOps < MaxOps
    /\ spOps' = spOps + 1
    /\ IF isConnected /\ spWs = "ws"
       THEN WsSend(SpeakMsg(spClass, data, spEventId))
       ELSE UNCHANGED spSent
    /\ UNCHANGED <<spClass, isConnected, spWs, spSocket, spEventId, spIds,
                   spCapturing>>
    /\ UNCHANGED SpeechRest

\* faulty variant: the event id is kept after the message
EndOfSegmentKeepsId(type) ==
    /\ spOps < MaxOps
    /\ spOps' = spOps + 1
    /\ IF isConnected /\ spWs = "ws"
       THEN WsSend(EndMsg(type, spEventId))
       ELSE UNCHANGED spSent
    /\ UNCHANGED <<spEventId, spIds>>
    /\ UNCHANGED <<spClass, isConnected, spWs, spSocket, spCapturing>>
    /\ UNCHANGED SpeechRest
\* the common body of flush, clearBuffer, onSpeechEnd and onInterrupt:
\* if connected, send the message with this.eventId, then generate a new id
EndOfSegment(type) ==
    /\ spOps < MaxOps
    /\ spOps' = spOps + 1
    /\ IF isConnected /\ spWs = "ws"
       THEN /\ WsSend(EndMsg(type, spEventId))
            /\ spEventId' = spIds + 1
            /\ spIds' = spIds + 1
       ELSE UNCHANGED <<spSent, spEventId, spIds>>
    /\ UNCHANGED <<spClass, isConnected, spWs, spSocket, spCapturing>>
    /\ UNCHANGED SpeechRest

Flush == spClass = "AudioOutput" /\ EndOfSegment("agent.speak_end")

ClearBuffer == spClass = "AudioOutput" /\ EndOfSegment("agent.interrupt")

OnSpeechEnd == spClass = "Forwarder" /\ EndOfSegment("agent.speak_end")

OnInterrupt == spClass = "Forwarder" /\ EndOfSegment("agent.interrupt")

\* the connection drops: the socket leaves the OPEN state
SocketDrops ==
    /\ spSocket = "OPEN"
    /\ spSocket' = "CLOSED"
    /\ UNCHANGED <<spClass, isConnected, spWs, spEventId, spIds, spSent,
                   spCapturing, spOps>>
    /\ UNCHANGED SpeechRest

\* the 'close' / 'error' handlers: this.isConnected = false
OnSocketClose ==
    /\ spSocket = "CLOSED"
    /\ isConnected
    /\ isConnected' = FALSE
    /\ UNCHANGED <<spClass, spWs, spSocket, spEventId, spIds, spSent,
                   spCapturing, spOps>>
    /\ UNCHANGED SpeechRest

\* stop(): this.ws.close(); this.ws = undefined
StopSpeech ==
    /\ spWs = "ws"
    /\ spWs' = "undefined"
    /\ spSocket' = "CLOSED"
    /\ UNCHANGED <<spClass, isConnected, spEventId, spIds, spSent, spCapturing,
                   spOps>>
    /\ UNCHANGED SpeechRest

NextSpeech ==
    \/ \E data \in SpeechFrames : CaptureFrame(data)
    \/ CaptureFrameSend
    \/ \E data \in SpeechFrames : ForwardAudio(data)
    \/ Flush \/ ClearBuffer \/ OnSpeechEnd \/ OnInterrupt
    \/ SocketDrops \/ OnSocketClose \/ StopSpeech

SpecSpeech == InitSpeech /\ [][NextSpeech]_vars

(***************************************************************************)
(* entry() of the complete agent (LiveAvatarAudioOutput.start / stop) and  *)
(* of the data-stream agent (startLiveAvatarSession), one action per       *)
(* await, and the room's 'disconnected' event.  The handler is attached by *)
(* the last statement of entry(); an event emitted earlier has no listener.*)
(***************************************************************************)
EntryAgents == {"complete", "dataStream"}
LaSessionIdValue == "session-1"

EntryRest == <<rsVars, ttsVars, srvVars, mainVars, slotVars, waitVars, speechVars, flightVars, startVars>>
EntryRestIdle ==
    RsIdle /\ TtsIdle /\ SrvIdle /\ MainIdle /\ SlotIdle /\ WaitIdle /\ SpeechIdle
        /\ FlightIdle /\ StartIdle

InitEntry ==
    /\ entryAgent \in EntryAgents
    /\ entryPc = "connect"
    /\ entryError = ""
    /\ roomState = "none"
    /\ laSessionId = ""
    /\ laStarted = FALSE
    /\ laWs = "undefined"
    /\ laSocket = "none"
    /\ entryCalls = <<>>
    /\ afterStart = FALSE
    /\ greeted = FALSE
    /\ EntryRestIdle

\* a step of entry(): o = "ok" continues at `next`, any other outcome is
\* the error entry() rejects with
EntryStep(o, next) ==
    /\ entryPc' = IF o = "ok" THEN next ELSE "rejected"
    /\ entryError' = IF o = "ok" THEN entryError ELSE o

\* await ctx.connect()
Connect ==
    /\ entryPc = "connect"
    /\ \E o \in {"ok", "connect failed"} :
        /\ EntryStep(o, "waitForParticipant")
        /\ roomState' = IF o = "ok" THEN "connected" ELSE roomState
    /\ UNCHANGED <<entryAgent, laSessionId, laStarted, laWs, laSocket, entryCalls,
                   afterStart, greeted>>
    /\ UNCHANGED EntryRest

\* await ctx.waitForParticipant()
WaitForParticipant ==
    /\ entryPc = "waitForParticipant"
    /\ \E o \in {"ok", "no participant"} : EntryStep(o, "avatars")
    /\ UNCHANGED <<entryAgent, roomState, laSessionId, laStarted, laWs, laSocket,
                   entryCalls, afterStart, greeted>>
    /\ UNCHANGED EntryRest

\* start, step 1: fetch the avatars; not ok / no avatar id: throw
FetchAvatarId ==
    /\ entryPc = "avatars"
    /\ \E o \in {"ok", "fetch failed", "Failed to fetch avatars",
                 "No avatar ID provided and no active avatars found"} :
        EntryStep(o, "token")
    /\ UNCHANGED <<entryAgent, roomState, laSessionId, laStarted, laWs, laSocket,
                   entryCalls, afterStart, greeted>>
    /\ UNCHANGED EntryRest

\* start, steps 2-3: the avatar token, POST /sessions/token; not ok: throw;
\* sessionId = tokenData.data.session_id
CreateSessionToken ==
    /\ entryPc = "token"
    /\ \E o \in {"ok", "fetch failed", "Failed to create session token"} :
        /\ EntryStep(o, "startSession")
        /\ laSessionId' = IF o = "ok" THEN LaSessionIdValue ELSE laSessionId
    /\ UNCHANGED <<entryAgent, roomState, laStarted, laWs, laSocket, entryCalls,
                   afterStart, greeted>>
    /\ UNCHANGED EntryRest

\* start, step 4: POST /sessions/start; not ok: throw; the complete agent
\* also throws when the response has no ws_url
StartSession ==
    /\ entryPc = "startSession"
    /\ \E o \in {"ok", "fetch failed", "Failed to start session",
                 "No WebSocket URL returned from LiveAvatar"} :
        /\ o = "No WebSocket URL returned from LiveAvatar"
              => entryAgent = "complete"
        /\ laStarted' = (o \in {"ok", "No WebSocket URL returned from LiveAvatar"})
        /\ EntryStep(o, IF entryAgent = "complete" THEN "connectWebSocket"
                        ELSE "sessionStart")
    /\ UNCHANGED <<entryAgent, roomState, laSessionId, laWs, laSocket, entryCalls,
                   afterStart, greeted>>
    /\ UNCHANGED EntryRest

\* start, step 5 (complete agent): await this.connectWebSocket()
ConnectWebSocket ==
    /\ entryPc = "connectWebSocket"
    /\ laWs' = "ws"
    /\ \E o \in {"ok", "WebSocket error"} :
        /\ laSocket' = IF o = "ok" THEN "OPEN" ELSE "CLOSED"
        /\ EntryStep(o, "sessionStart")
    /\ UNCHANGED <<entryAgent, roomState, laSessionId, laStarted, entryCalls,
                   afterStart, greeted>>
    /\ UNCHANGED EntryRest

\* await session.start({ agent, room, ... }); then
\* ctx.room.on('disconnected', ...) attaches the handler
SessionStart ==
    /\ entryPc = "sessionStart"
    /\ \E o \in {"ok", "session.start failed"} : EntryStep(o, "registered")
    /\ UNCHANGED <<entryAgent, roomState, laSessionId, laStarted, laWs, laSocket,
                   entryCalls, afterStart, greeted>>
    /\ UNCHANGED EntryRest

\* the room emits 'disconnected'.  With the handler attached it runs up to
\* its await: the complete agent's stop() closes the WebSocket and clears
\* this.ws; both agents issue POST /sessions/stop when sessionId is set.
Disconnected ==
    /\ roomState = "connected"
    /\ roomState' = "disconnected"
    /\ afterStart' = laStarted
    /\ IF entryPc = "registered"
       THEN /\ laWs' = "undefined"
            /\ laSocket' = IF laWs = "ws" THEN "CLOSED" ELSE laSocket
            /\ entryCalls' = IF laSessionId # ""
                             THEN Append(entryCalls, <<laSessionId, "pending">>)
                             ELSE entryCalls
       ELSE UNCHANGED <<laWs, laSocket, entryCalls>>
    /\ UNCHANGED <<entryAgent, entryPc, entryError, laSessionId, laStarted,
                   greeted>>
    /\ UNCHANGED EntryRest

\* the /sessions/stop request settles; a rejection is caught and logged
StopSettles ==
    /\ entryCalls # <<>>
    /\ entryCalls[Len(entryCalls)][2] = "pending"
    /\ \E o \in {"ok", "notOk", "throws"} :
        entryCalls' = [entryCalls EXCEPT ![Len(entryCalls)][2] = o]
    /\ UNCHANGED <<entryAgent, entryPc, entryError, roomState, laSessionId,
                   laStarted, laWs, laSocket, afterStart, greeted>>
    /\ UNCHANGED EntryRest

\* setTimeout(() => session.say('Hello! ...'), 2000), set after
\* session.start has resolved
SayHello ==
    /\ entryPc = "registered"
    /\ ~greeted
    /\ greeted' = TRUE
    /\ UNCHANGED <<entryAgent, entryPc, entryError, roomState, laSessionId,
                   laStarted, laWs, laSocket, entryCalls, afterStart>>
    /\ UNCHANGED EntryRest

\* the LiveAvatar server or the network closes the WebSocket
SocketCloses ==
    /\ laSocket = "OPEN"
    /\ laSocket' = "CLOSED"
    /\ UNCHANGED <<entryAgent, entryPc, entryError, roomState, laSessionId,
                   laStarted, laWs, entryCalls, afterStart, greeted>>
    /\ UNCHANGED EntryRest

NextEntry ==
    \/ Connect \/ WaitForParticipant \/ FetchAvatarId \/ CreateSessionToken
    \/ StartSession \/ ConnectWebSocket \/ SessionStart
    \/ SayHello \/ SocketCloses \/ Disconnected \/ StopSettles

SpecEntry == InitEntry /\ [][NextEntry]_vars

(***************************************************************************)
(* searchFlights (tool-calling agent and complete agent).  A string is a   *)
(* sequence of characters; an optional argument is <<>> when null or       *)
(* undefined and <<v>> when supplied; parseInt yields <<>> for NaN.        *)
(***************************************************************************)
FlightRest == <<rsVars, ttsVars, srvVars, mainVars, slotVars, waitVars, speechVars,
                entryVars, startVars>>
FlightRestIdle ==
    RsIdle /\ TtsIdle /\ SrvIdle /\ MainIdle /\ SlotIdle /\ WaitIdle /\ SpeechIdle
        /\ EntryIdle /\ StartIdle

MOCK_FLIGHTS ==
    << [id |-> "UA123", arrival |-> <<"9", ":", "1", "5", " ", "A", "M">>,
        price |-> 450, stops |-> 1],
       [id |-> "AA456", arrival |-> <<"1", "0", ":", "4", "5", " ", "A", "M">>,
        price |-> 380, stops |-> 1],
       [id |-> "DL789", arrival |-> <<"1", "1", ":", "3", "0", " ", "A", "M">>,
        price |-> 520, stops |-> 2] >>

Digits == {"0", "1", "2", "3", "4", "5", "6", "7", "8", "9"}
DigitVal(c) ==
    CASE c = "0" -> 0 [] c = "1" -> 1 [] c = "2" -> 2 [] c = "3" -> 3
      [] c = "4" -> 4 [] c = "5" -> 5 [] c = "6" -> 6 [] c = "7" -> 7
      [] c = "8" -> 8 [] c = "9" -> 9

\* the number of leading digits of a string
RECURSIVE LeadingDigits(_)
LeadingDigits(str) ==
    IF str = <<>> \/ Head(str) \notin Digits THEN 0
    ELSE 1 + LeadingDigits(Tail(str))

RECURSIVE DigitsValue(_, _)
DigitsValue(str, n) ==
    IF n = 0 THEN 0 ELSE 10 * DigitsValue(str, n - 1) + DigitVal(str[n])

\* parseInt(str) for an unsigned text: the leading digits, NaN if none
ParseInt(str) ==
    IF LeadingDigits(str) = 0 THEN <<>>
    ELSE <<DigitsValue(str, LeadingDigits(str))>>

\* str.toLowerCase().includes('am')
IncludesAm(str) ==
    \E k \in 1..(Len(str) - 1) :
        str[k] \in {"a", "A"} /\ str[k + 1] \in {"m", "M"}

\* includes('am') ? parseInt(str) : parseInt(str) + 12
HourOf(str) ==
    IF IncludesAm(str) \/ ParseInt(str) = <<>> THEN ParseInt(str)
    ELSE <<ParseInt(str)[1] + 12>>

\* a <= b on numbers; every comparison with NaN is false
NumLeq(a, b) == a # <<>> /\ b # <<>> /\ a[1] <= b[1]

\* flights.sort((a, b) => a.price - b.price): stable, ascending by price
RECURSIVE SortByPrice(_)
SortByPrice(seq) ==
    IF seq = <<>> THEN <<>>
    ELSE LET k == CHOOSE i \in 1..Len(seq) :
                     /\ \A j \in 1..Len(seq) : seq[i].price <= seq[j].price
                     /\ \A j \in 1..(i - 1) : seq[j].price # seq[i].price
         IN <<seq[k]>> \o SortByPrice(SubSeq(seq, 1, k - 1)
                                        \o SubSeq(seq, k + 1, Len(seq)))

\* if (arrivalBefore) flights = flights.filter(arrTime <= targetTime)
ArrivalFilter(flights, arrivalBefore) ==
    IF arrivalBefore = <<>> \/ arrivalBefore[1] = <<>> THEN flights
    ELSE LET KeepArrival(f) == NumLeq(HourOf(f.arrival), HourOf(arrivalBefore[1]))
         IN SelectSeq(flights, KeepArrival)

\* if (maxPrice) flights = flights.filter(f => f.price <= maxPrice)
PriceFilter(flights, maxPrice) ==
    IF maxPrice = <<>> \/ maxPrice[1] = 0 THEN flights
    ELSE LET KeepPrice(f) == f.price <= maxPrice[1]
         IN SelectSeq(flights, KeepPrice)

\* the object searchFlights returns
SearchResult(file, args) ==
    LET flights == SortByPrice(PriceFilter(
                       ArrivalFilter(MOCK_FLIGHTS, args.arrivalBefore),
                       args.maxPrice))
        base == [success |-> TRUE,
                 flights |-> flights,
                 message |-> IF Len(flights) = 0
                             THEN <<"No flights found matching your criteria">>
                             ELSE <<"Found", Len(flights), "flight(s) to",
                                    args.destination>>]
    IN IF file = "toolCalling"
       THEN <<base, [hasDirectFlights |-> FALSE]>>
       ELSE <<base>>

Destinations == {"SF"}
ArrivalArgs ==
    {<<>>,                                             \* null / undefined
     << <<>> >>,                                       \* ''
     << <<"1", "0", ":", "0", "0", " ", "A", "M">> >>,
     << <<"9", " ", "a", "m">> >>,
     << <<"1", ":", "0", "0", " ", "P", "M">> >>,
     << <<"n", "o", "o", "n">> >>}
MaxPriceArgs == {<<>>, <<0>>, <<-5>>, <<379>>, <<380>>, <<450>>, <<500>>, <<1000>>}

InitFlights ==
    /\ sfPc = "ready"
    /\ sfFile \in {"toolCalling", "completeAgent"}
    /\ sfArgs = <<>>
    /\ sfResult = <<>>
    /\ FlightRestIdle

\* execute is called: the arguments are logged, await simulateLatency(...)
SearchFlightsCall ==
    /\ sfPc = "ready"
    /\ \E d \in Destinations, a \in ArrivalArgs, p \in MaxPriceArgs :
          sfArgs' = [destination |-> d, arrivalBefore |-> a, maxPrice |-> p]
    /\ sfPc' = "latency"
    /\ UNCHANGED <<sfFile, sfResult>>
    /\ UNCHANGED FlightRest

\* if (shouldFail(0.15)) throw new Error(...)
SearchFlightsFails ==
    /\ sfPc = "latency"
    /\ sfPc' = "thrown"
    /\ UNCHANGED <<sfFile, sfArgs, sfResult>>
    /\ UNCHANGED FlightRest

\* the filters, the sort and the return
SearchFlightsReturns ==
    /\ sfPc = "latency"
    /\ sfResult' = SearchResult(sfFile, sfArgs)
    /\ sfPc' = "done"
    /\ UNCHANGED <<sfFile, sfArgs>>
    /\ UNCHANGED FlightRest

NextFlights == SearchFlightsCall \/ SearchFlightsFails \/ SearchFlightsReturns

SpecFlights == InitFlights /\ [][NextFlights]_vars

(***************************************************************************)
(* Start-up: entry() of the complete agent (LiveAvatarPipelineAgent, with  *)
(* the function startLiveAvatarSession) and LiveAvatarForwarder.start      *)
(* (with the methods startLiveAvatarSession and connectWebSocket), one     *)
(* action per await, and the events of the avatar WebSocket.  A text that  *)
(* is undefined or empty is "": both are falsy.                            *)
(***************************************************************************)
StartAgents == {"complete", "forwarder"}

StartRest == <<rsVars, ttsVars, srvVars, mainVars, slotVars, waitVars, speechVars,
               entryVars, flightVars>>
StartRestIdle ==
    RsIdle /\ TtsIdle /\ SrvIdle /\ MainIdle /\ SlotIdle /\ WaitIdle /\ SpeechIdle
        /\ EntryIdle /\ FlightIdle

\* process.env.LIVE_AVATAR_ID / config.avatarId
ConfigAvatarIds == {"", "configured"}

\* avatarsData.data.results
AvatarResults ==
    { <<>>,
      <<[id |-> "a1", status |-> "INACTIVE"]>>,
      <<[id |-> "a1", status |-> "INACTIVE"], [id |-> "a2", status |-> "ACTIVE"]>> }

\* startData.data.ws_url
WsUrls == {"", "wss://avatar"}

\* the outcomes of a fetch: a response with ok, a response without ok, a
\* rejection
FetchOutcomes == {"ok", "notOk", "fetch failed"}

\* avatarsData.data.results.filter((a) => a.status === 'ACTIVE')
ActiveAvatars(results) == SelectSeq(results, LAMBDA a : a.status = "ACTIVE")

\* process.env.LIVE_AVATAR_ID || activeAvatars[0]?.id
AvatarIdOf(configured, results) ==
    IF configured # "" THEN configured
    ELSE IF ActiveAvatars(results) # <<>> THEN ActiveAvatars(results)[1].id
    ELSE ""

DefaultWsUrl == "wss://api.heygen.com/v1/streaming.avatar.ws"

InitStartup ==
    /\ suAgent \in StartAgents
    /\ suPc = IF suAgent = "complete" THEN "connect" ELSE "fetchAvatars"
    /\ suError = ""
    /\ suConfig \in ConfigAvatarIds
    /\ suRequests = <<>>
    /\ suAvatarId = ""
    /\ suSessionId = ""
    /\ suWsUrl = ""
    /\ suReturned = <<>>
    /\ suSocket = "none"
    /\ suEmitted = <<>>
    /\ suConnected = FALSE
    /\ voiceStarted = FALSE
    /\ forwarding = FALSE
    /\ StartRestIdle

\* a step of the start-up: o = "ok" continues at `next`, any other outcome
\* is the error the start-up fails with
StartStep(o, next) ==
    /\ suPc' = IF o = "ok" THEN next ELSE "failed"
    /\ suError' = IF o = "ok" THEN suError ELSE o

\* await ctx.connect()
CtxConnect ==
    /\ suPc = "connect"
    /\ \E o \in {"ok", "connect failed"} : StartStep(o, "waitForParticipant")
    /\ UNCHANGED <<suAgent, suConfig, suRequests, suAvatarId, suSessionId, suWsUrl,
                   suReturned, suSocket, suEmitted, suConnected, voiceStarted,
                   forwarding>>
    /\ UNCHANGED StartRest

\* await ctx.waitForParticipant()
CtxWaitForParticipant ==
    /\ suPc = "waitForParticipant"
    /\ \E o \in {"ok", "no participant"} : StartStep(o, "fetchAvatars")
    /\ UNCHANGED <<suAgent, suConfig, suRequests, suAvatarId, suSessionId, suWsUrl,
                   suReturned, suSocket, suEmitted, suConnected, voiceStarted,
                   forwarding>>
    /\ UNCHANGED StartRest

\* await fetch(.../v1/avatars/public); if (!avatarsResponse.ok) throw
AvatarsRequest ==
    /\ suPc = "fetchAvatars"
    /\ \E o \in FetchOutcomes :
        /\ suRequests' = Append(suRequests, [url |-> "avatars", outcome |-> o])
        /\ StartStep(IF o = "notOk" THEN "Failed to fetch avatars" ELSE o,
                     "avatarsJson")
    /\ UNCHANGED <<suAgent, suConfig, suAvatarId, suSessionId, suWsUrl, suReturned,
                   suSocket, suEmitted, suConnected, voiceStarted, forwarding>>
    /\ UNCHANGED StartRest

\* await avatarsResponse.json(); the avatar id; if (!avatarId) throw
AvatarsData ==
    /\ suPc = "avatarsJson"
    /\ \E results \in AvatarResults :
        /\ suAvatarId' = AvatarIdOf(suConfig, results)
        /\ StartStep(IF suAvatarId' = "" THEN "No avatar ID" ELSE "ok", "toJwt")
    /\ UNCHANGED <<suAgent, suConfig, suRequests, suSessionId, suWsUrl, suReturned,
                   suSocket, suEmitted, suConnected, voiceStarted, forwarding>>
    /\ UNCHANGED StartRest

\* await avatarToken.toJwt()
AvatarTokenToJwt ==
    /\ suPc = "toJwt"
    /\ \E o \in {"ok", "toJwt failed"} : StartStep(o, "fetchToken")
    /\ UNCHANGED <<suAgent, suConfig, suRequests, suAvatarId, suSessionId, suWsUrl,
                   suReturned, suSocket, suEmitted, suConnected, voiceStarted,
                   forwarding>>
    /\ UNCHANGED StartRest

\* faulty variant: the status of the token response is not looked at
TokenRequestIgnoresStatus ==
    /\ suPc = "fetchToken"
    /\ \E o \in FetchOutcomes :
        /\ suRequests' = Append(suRequests, [url |-> "token", outcome |-> o])
        /\ StartStep(IF o = "notOk" THEN "ok" ELSE o, "tokenJson")
    /\ UNCHANGED <<suAgent, suConfig, suAvatarId, suSessionId, suWsUrl, suReturned,
                   suSocket, suEmitted, suConnected, voiceStarted, forwarding>>
    /\ UNCHANGED StartRest
\* await fetch(.../v1/sessions/token); if (!tokenResponse.ok) throw (after
\* await tokenResponse.text())
TokenRequest ==
    /\ suPc = "fetchToken"
    /\ \E o \in FetchOutcomes :
        /\ suRequests' = Append(suRequests, [url |-> "token", outcome |-> o])
        /\ StartStep(IF o = "notOk" THEN "Failed to create session token" ELSE o,
                     "tokenJson")
    /\ UNCHANGED <<suAgent, suConfig, suAvatarId, suSessionId, suWsUrl, suReturned,
                   suSocket, suEmitted, suConnected, voiceStarted, forwarding>>
    /\ UNCHANGED StartRest

\* await tokenResponse.json(); sessionToken, sessionId
TokenData ==
    /\ suPc = "tokenJson"
    /\ suSessionId' = LaSessionIdValue
    /\ suPc' = "fetchStart"
    /\ UNCHANGED <<suAgent, suError, suConfig, suRequests, suAvatarId, suWsUrl,
                   suReturned, suSocket, suEmitted, suConnected, voiceStarted,
                   forwarding>>
    /\ UNCHANGED StartRest

\* await fetch(.../v1/sessions/start); if (!startResponse.ok) throw (after
\* await startResponse.text())
StartRequest ==
    /\ suPc = "fetchStart"
    /\ \E o \in FetchOutcomes :
        /\ suRequests' = Append(suRequests, [url |-> "start", outcome |-> o])
        /\ StartStep(IF o = "notOk" THEN "Failed to start session" ELSE o,
                     "startJson")
    /\ UNCHANGED <<suAgent, suConfig, suAvatarId, suSessionId, suWsUrl, suReturned,
                   suSocket, suEmitted, suConnected, voiceStarted, forwarding>>
    /\ UNCHANGED StartRest

\* await startResponse.json() and the rest of startLiveAvatarSession, then
\* the caller up to its next await.  Complete agent: ws_url or the default
\* URL, return { sessionId, wsUrl }, new WebSocket(wsUrl).  Forwarder:
\* this.wsUrl = ws_url, throw if it is missing, else connectWebSocket()
\* creates the socket.
StartData ==
    /\ suPc = "startJson"
    /\ \E u \in WsUrls :
        IF suAgent = "complete"
        THEN /\ suWsUrl' = IF u # "" THEN u ELSE DefaultWsUrl
             /\ suReturned' = <<[sessionId |-> suSessionId, wsUrl |-> suWsUrl']>>
             /\ suSocket' = "CONNECTING"
             /\ StartStep("ok", "awaitOpen")
        ELSE /\ suWsUrl' = u
             /\ suReturned' = suReturned
             /\ suSocket' = IF u # "" THEN "CONNECTING" ELSE suSocket
             /\ StartStep(IF u # "" THEN "ok" ELSE "No WebSocket URL returned",
                          "awaitOpen")
    /\ UNCHANGED <<suAgent, suConfig, suRequests, suAvatarId, suSessionId, suEmitted,
                   suConnected, voiceStarted, forwarding>>
    /\ UNCHANGED StartRest

\* the socket emits 'open': the complete agent's listener resolves the
\* promise entry() awaits; the forwarder's sets isConnected and resolves
OnOpen ==
    /\ suSocket = "CONNECTING"
    /\ suSocket' = "OPEN"
    /\ suEmitted' = Append(suEmitted, "open")
    /\ suConnected' = IF suAgent = "forwarder" THEN TRUE ELSE suConnected
    /\ suPc' = IF suPc # "awaitOpen" THEN suPc
               ELSE IF suAgent = "complete" THEN "sessionStart"
               ELSE "waitForAudioTrack"
    /\ UNCHANGED <<suAgent, suError, suConfig, suRequests, suAvatarId, suSessionId,
                   suWsUrl, suReturned, voiceStarted, forwarding>>
    /\ UNCHANGED StartRest

\* faulty variant: the complete agent's 'error' listener only logs
OnErrorOnlyLogs ==
    /\ suSocket \in {"CONNECTING", "OPEN"}
    /\ suSocket' = "CLOSING"
    /\ suEmitted' = Append(suEmitted, "error")
    /\ suConnected' = FALSE
    /\ UNCHANGED <<suPc, suError>>
    /\ UNCHANGED <<suAgent, suConfig, suRequests, suAvatarId, suSessionId, suWsUrl,
                   suReturned, voiceStarted, forwarding>>
    /\ UNCHANGED StartRest
\* the socket emits 'error'.  Complete agent: the listener is `reject`, it
\* fails the promise entry() awaits (no effect once the promise is
\* settled).  Forwarder: the listener logs and clears isConnected, it does
\* not settle the promise of connectWebSocket.
OnError ==
    /\ suSocket \in {"CONNECTING", "OPEN"}
    /\ suSocket' = "CLOSING"
    /\ suEmitted' = Append(suEmitted, "error")
    /\ suConnected' = FALSE
    /\ IF suAgent = "complete" /\ suPc = "awaitOpen"
       THEN StartStep("socket error", "awaitOpen")
       ELSE UNCHANGED <<suPc, suError>>
    /\ UNCHANGED <<suAgent, suConfig, suRequests, suAvatarId, suSessionId, suWsUrl,
                   suReturned, voiceStarted, forwarding>>
    /\ UNCHANGED StartRest

\* the socket emits 'close' (after 'error', or when the open connection
\* ends).  Complete agent: no listener.  Forwarder: the listener logs and
\* clears isConnected.
OnClose ==
    /\ suSocket \in {"CLOSING", "OPEN"}
    /\ suSocket' = "CLOSED"
    /\ suEmitted' = Append(suEmitted, "close")
    /\ suConnected' = FALSE
    /\ UNCHANGED <<suAgent, suPc, suError, suConfig, suRequests, suAvatarId,
                   suSessionId, suWsUrl, suReturned, voiceStarted, forwarding>>
    /\ UNCHANGED StartRest

\* forwarder: await this.waitForAudioTrack(agentParticipant), then
\* this.forwardingTask = this.forwardAudio() and start() resolves
AwaitAudioTrack ==
    /\ suPc = "waitForAudioTrack"
    /\ \E o \in {"ok", "Timeout waiting for agent audio track"} :
        /\ StartStep(o, "done")
        /\ forwarding' = (o = "ok")
    /\ UNCHANGED <<suAgent, suConfig, suRequests, suAvatarId, suSessionId, suWsUrl,
                   suReturned, suSocket, suEmitted, suConnected, voiceStarted>>
    /\ UNCHANGED StartRest

\* complete agent: new voice.AgentSession(...), await session.start(...)
VoiceSessionStart ==
    /\ suPc = "sessionStart"
    /\ \E o \in {"ok", "session.start failed"} :
        /\ StartStep(o, "done")
        /\ voiceStarted' = (o = "ok")
    /\ UNCHANGED <<suAgent, suConfig, suRequests, suAvatarId, suSessionId, suWsUrl,
                   suReturned, suSocket, suEmitted, suConnected, forwarding>>
    /\ UNCHANGED StartRest

NextStartup ==
    \/ CtxConnect
    \/ CtxWaitForParticipant
    \/ AvatarsRequest
    \/ AvatarsData
    \/ AvatarTokenToJwt
    \/ TokenRequest
    \/ TokenData
    \/ StartRequest
    \/ StartData
    \/ OnOpen
    \/ OnError
    \/ OnClose
    \/ AwaitAudioTrack
    \/ VoiceSessionStart

SpecStartup == InitStartup /\ [][NextStartup]_vars

(***************************************************************************)
(* Properties of the resamplers                                            *)
(***************************************************************************)
RsInRate == IF rsFn = "push" THEN pushInputRate ELSE inputRate
RsOutRate == IF rsFn = "push" THEN SAMPLE_RATE ELSE outputRate

\* C1: for every input of length n >= 0 the resampler returns exactly
\* floor(n * output_rate / input_rate) samples, for resample22To24
\* (22050 -> 24000) and for AudioResampler.push (48000 -> 24000).
C1_OutputLength ==
    rsPc = "done" =>
        Len(rsOut) = (Len(rsSamples) * RsOutRate) \div RsInRate

\* an upsampled input: the output is longer than the input
C1_Witness ==
    /\ rsPc = "done"
    /\ rsFn = "resample22To24"
    /\ Len(rsSamples) >= 12
    /\ Len(rsOut) = Len(rsSamples) + 1

\* C2: the resampler never reads past the end of a non-empty input: for
\* every output index i the floor source index floor(i / ratio) and the
\* ceiling source index lie in 0..n-1, and the ceiling index is floor + 1
\* clamped to n - 1 (never wrapped to 0).
C2_ReadsInRange ==
    (rsPc = "done" /\ Len(rsSamples) > 0) =>
        /\ \A i \in 0..(Len(rsOut) - 1) : \E r \in rsReads : r[1] = i
        /\ \A r \in rsReads :
            /\ r[1] \in 0..(Len(rsOut) - 1)
            /\ r[2] = (r[1] * RsInRate) \div RsOutRate
            /\ r[2] \in 0..(Len(rsSamples) - 1)
            /\ r[3] \in 0..(Len(rsSamples) - 1)
            /\ r[3] = (IF r[2] + 1 <= Len(rsSamples) - 1
                       THEN r[2] + 1 ELSE Len(rsSamples) - 1)

\* the last output index reads the last input sample as floor and as
\* (clamped) ceiling
C2_Witness ==
    /\ rsPc = "done"
    /\ rsFn = "resample22To24"
    /\ \E r \in rsReads :
        /\ r[2] = Len(rsSamples) - 1
        /\ r[3] = Len(rsSamples) - 1

\* the exact interpolated value of output index i, times outputRate
C3_ExactNum(i) ==
    LET n == Len(rsSamples)
        f == (i * inputRate) \div outputRate
        c == IF f + 1 <= n - 1 THEN f + 1 ELSE n - 1
        fracNum == (i * inputRate) % outputRate
    IN rsSamples[f + 1] * (outputRate - fracNum) + rsSamples[c + 1] * fracNum

Abs(x) == IF x < 0 THEN -x ELSE x

\* C3: every output sample of resample22To24 is the interpolated value
\* in[f] * (1 - frac) + in[c] * frac rounded to a nearest integer, where
\* pos = i / ratio, f = floor(pos), c = min(f + 1, n - 1), frac = pos - f.
C3_Interpolation ==
    (rsPc = "done" /\ rsFn = "resample22To24") =>
        \A j \in 1..Len(rsOut) :
            2 * Abs(outputRate * rsOut[j] - C3_ExactNum(j - 1)) <= outputRate

\* an output sample strictly between two different input samples
C3_Witness ==
    /\ rsPc = "done"
    /\ rsFn = "resample22To24"
    /\ \E j \in 1..Len(rsOut) :
        /\ (j - 1) * inputRate % outputRate # 0
        /\ rsOut[j] \notin SampleVals
        /\ 2 * Abs(outputRate * rsOut[j] - C3_ExactNum(j - 1)) < outputRate

(***************************************************************************)
(* Properties of the ttsNode overrides                                     *)
(***************************************************************************)
\* the messages of wsSent that carry event id `id`, in send order
MsgsWithId(id) == SelectSeq(wsSent, LAMBDA m : m.event_id = id)

TypesWithId(id) == [k \in 1..Len(MsgsWithId(id)) |-> MsgsWithId(id)[k].type]

\* the samples an agent.speak message carries
SamplesOf(m) == BytesToInt16(Base64Decode(m.audio))

RECURSIVE ConcatSamples(_)
ConcatSamples(msgs) ==
    IF msgs = <<>> THEN <<>>
    ELSE (IF Head(msgs).type = "agent.speak" THEN SamplesOf(Head(msgs)) ELSE <<>>)
         \o ConcatSamples(Tail(msgs))

\* the samples sent with the event id of invocation i, in send order
SentSamples(i) == ConcatSamples(MsgsWithId(eventId[i]))

\* the sample counts of the agent.speak messages of invocation i
SpeakSizes(i) ==
    LET sp == SelectSeq(MsgsWithId(eventId[i]), LAMBDA m : m.type = "agent.speak")
    IN [k \in 1..Len(sp) |-> Len(SamplesOf(sp[k]))]

\* C4: a chunk belongs to exactly one utterance identifier: all messages
\* one ttsNode invocation sends (speak_started, speak, speak_end) carry the
\* same event_id, and messages of two different invocations never carry the
\* same event_id, also when the invocations overlap on the same socket.
C4_OneUtterancePerId ==
    \A k, l \in 1..Len(wsSent) :
        (wsSentBy[k] = wsSentBy[l]) <=> (wsSent[k].event_id = wsSent[l].event_id)

\* two overlapping invocations whose chunks interleave on the socket
C4_Witness ==
    \E k, l, m \in 1..Len(wsSent) :
        /\ k < l /\ l < m
        /\ wsSentBy[k] = 1 /\ wsSentBy[l] = 2 /\ wsSentBy[m] = 1
        /\ wsSent[k].type = "agent.speak"
        /\ wsSent[l].type = "agent.speak"
        /\ wsSent[m].type = "agent.speak"

C8_ChunkSize ==
    \A i \in Inv :
        (agent = "complete" /\ eventId[i] # NoEventId) =>
            LET sizes == SpeakSizes(i)
            IN \A k \in 1..Len(sizes) :
                /\ sizes[k] <= 2400
                /\ k < Len(sizes) => sizes[k] = 2400

\* a full chunk followed by the shorter remainder
C8_Witness ==
    /\ agent = "complete"
    /\ ttsPc[1] = "done"
    /\ SpeakSizes(1) = <<2400, 1200>>

\* C9: the debug interceptor sends all TTS audio: once the stream is read to
\* its end with the socket OPEN, the samples sent equal the samples read,
\* for every total sample count.
C9_InterceptorSendsAll ==
    \A i \in Inv :
        (agent = "interceptor" /\ wsState = "OPEN" /\ ttsPc[i] = "done") =>
            SentSamples(i) = ttsRead[i]

(***************************************************************************)
(* Properties of the debug server                                          *)
(***************************************************************************)
IsSpeakWithAudio(e) == e.type = "agent.speak" /\ "audio" \in DOMAIN e

\* the audio bytes of the agent.speak events that arrived after the last
\* agent.speak_end of the event log ev, in arrival order
RECURSIVE BufferedSince(_)
BufferedSince(ev) ==
    IF ev = <<>> \/ ev[Len(ev)].type = "agent.speak_end" THEN <<>>
    ELSE BufferedSince(SubSeq(ev, 1, Len(ev) - 1))
         \o (IF IsSpeakWithAudio(ev[Len(ev)])
             THEN Base64Decode(ev[Len(ev)].audio) ELSE <<>>)

\* this step handles an agent.speak_end message
HandlesSpeakEnd ==
    /\ Len(events') = Len(events) + 1
    /\ events'[Len(events')].type = "agent.speak_end"

\* C10: on agent.speak_end, if at least one chunk is buffered the server
\* writes one file whose content is the concatenation, in arrival order, of
\* the chunks buffered since the previous reset, then empties the chunk
\* buffer and sets totalAudioBytes to 0; if no chunk is buffered it writes
\* no file.
C10_SaveOnEnd ==
    [][HandlesSpeakEnd =>
        IF audioChunks # <<>>
        THEN /\ Len(files') = Len(files) + 1
             /\ SubSeq(files', 1, Len(files)) = files
             /\ files'[Len(files')].content = BufferedSince(events)
             /\ files'[Len(files')].name = AudioFile(events'[Len(events')].event_id)
             /\ audioChunks' = <<>>
             /\ totalAudioBytes' = 0
        ELSE /\ files' = files
             /\ audioChunks' = <<>>
    ]_vars

\* a file holding two chunks was written and the buffer was reset
C10_Witness ==
    /\ Len(files) = 1
    /\ files[1].content = <<7, 255, 0, 16, 128>>
    /\ events[Len(events)].type = "agent.speak_end"
    /\ audioChunks = <<>>
    /\ totalAudioBytes = 0

\* C11: identity: when the rate of the input equals the output rate of the
\* resampler, the output equals the input exactly (same length, same sample
\* at every index).  resample22To24 has the fixed rates 22050 -> 24000, so
\* only AudioResampler.push ever meets an input at its output rate.
C11_Identity ==
    (rsPc = "done" /\ rsRate = RsOutRate) =>
        /\ Len(rsOut) = Len(rsSamples)
        /\ \A j \in 1..Len(rsSamples) : rsOut[j] = rsSamples[j]

\* a frame of several samples pushed at the output rate came back unchanged
C11_Witness ==
    /\ rsPc = "done"
    /\ rsFn = "push"
    /\ rsRate = SAMPLE_RATE
    /\ Len(rsSamples) >= 2
    /\ rsOut = rsSamples

\* C12: resampling a zero-length input yields a zero-length output, reads
\* no input sample and raises no error (the call completes).
C12_EmptyInput ==
    (rsPc = "done" /\ Len(rsSamples) = 0) =>
        /\ rsOut = <<>>
        /\ rsReads = {}

\* resample22To24 was called with an empty array and returned
C12_Witness ==
    /\ rsPc = "done"
    /\ rsFn = "resample22To24"
    /\ rsSamples = <<>>
    /\ rsOut = <<>>

StrictlyIncreasing(seq) ==
    \A j \in 1..(Len(seq) - 1) : seq[j] < seq[j + 1]

NonDecreasing(seq) ==
    \A j \in 1..(Len(seq) - 1) : seq[j] <= seq[j + 1]

\* C13: monotonic interpolation: for every strictly increasing input
\* sequence the output sequence of the resampler is non-decreasing.
C13_Monotonic ==
    (rsPc = "done" /\ StrictlyIncreasing(rsSamples)) => NonDecreasing(rsOut)

\* a strictly increasing input long enough for the clamped last index, with
\* an interpolated value on a rounding tie, resampled to a longer output
C13_Witness ==
    /\ rsPc = "done"
    /\ rsFn = "resample22To24"
    /\ Len(rsSamples) >= 12
    /\ StrictlyIncreasing(rsSamples)
    /\ TieIdx(rsSamples, inputRate, outputRate) # {}
    /\ Len(rsOut) > Len(rsSamples)
    /\ rsOut[1] < rsOut[Len(rsOut)]

\* C14 as stated: resampling [0, 100, 200, 300] from 22050 to 24000 yields
\* 4 samples, the first 0 and the last approximately 300 (within rounding).
C14_LastNear300 ==
    (rsPc = "done" /\ rsFn = "resample22To24"
        /\ rsSamples = <<0, 100, 200, 300>>) =>
        /\ Len(rsOut) = 4
        /\ rsOut[1] = 0
        /\ Abs(rsOut[4] - 300) <= 1

\* C14 amended: resampling [0, 100, 200, 300] from 22050 to 24000 yields
\* exactly [0, 92, 184, 276]: the last output index 3 reads position
\* 3 * 22050 / 24000 = 2.75625, not the last input sample.
C14_ConcreteCase ==
    (rsPc = "done" /\ rsFn = "resample22To24"
        /\ rsSamples = <<0, 100, 200, 300>>) =>
        rsOut = <<0, 92, 184, 276>>

\* resample22To24 has returned for the input [0, 100, 200, 300]
C14_Witness ==
    /\ rsPc = "done"
    /\ rsFn = "resample22To24"
    /\ rsSamples = <<0, 100, 200, 300>>
    /\ Len(rsOut) = 4

(***************************************************************************)
(* Properties of the custom-room demo                                      *)
(***************************************************************************)
CallIdx(name) == {k \in 1..Len(mainCalls) : mainCalls[k][1] = name}

\* C15: the custom-room demo cleans up on every path: once the room name
\* has been assigned, every run that reaches completion attempts deleteRoom
\* exactly once (for that room); if a session id was obtained, a
\* /sessions/stop request (for that id) is attempted before the room
\* deletion, and a failing or throwing stop does not prevent the deletion.
C15_CleanupOnEveryPath ==
    (mainPc = "done" /\ roomName # "") =>
        /\ Cardinality(CallIdx("deleteRoom")) = 1
        /\ \A d \in CallIdx("deleteRoom") : mainCalls[d][2] = roomName
        /\ Truthy(sessionId) =>
              \E k \in CallIdx("sessions/stop") :
                  /\ mainCalls[k][2] = sessionId
                  /\ \A d \in CallIdx("deleteRoom") : k < d

\* a completed run whose stop request threw and whose room deletion was
\* attempted all the same
C15_Witness ==
    /\ mainPc = "done"
    /\ roomName # ""
    /\ \E k \in CallIdx("sessions/stop") : mainCalls[k][3] = "throws"
    /\ CallIdx("deleteRoom") # {}

(***************************************************************************)
(* Properties of the slot machine                                          *)
(***************************************************************************)
\* C16: the slot machine needs exactly 10 pulls to win: counting pullLever
\* calls from process start or from the previous jackpot, the call that
\* returns 'Jackpot! You win!' is exactly the 10th one and every earlier
\* call returns 'Not done yet', for every interleaving of overlapping
\* calls; the jackpot resets the counter to 0.
C16_TenthPullWins ==
    \A k \in 1..Len(slotReturns) :
        LET prev == {j \in 1..(k - 1) : slotReturns[j][2] = "Jackpot! You win!"}
            since == IF prev = {} THEN 0
                     ELSE slotReturns[CHOOSE j \in prev :
                                        \A h \in prev : h <= j][1]
        IN slotReturns[k][2] = "Jackpot! You win!"
              <=> slotReturns[k][1] - since = PULLS_TO_WIN

(***************************************************************************)
(* Properties of waitForAudioTrack                                         *)
(***************************************************************************)
\* C17: waitForAudioTrack is a bounded retry: it polls the track
\* publications at most 100 times (one retryDelay apart), returns as soon
\* as a poll observes a publication with an audio track (no poll after the
\* one that found it), otherwise throws the timeout error after the 100th
\* poll; it never creates the AudioStream without a found track and never
\* polls forever.
C17_BoundedRetry ==
    /\ waitPolls <= 100
    /\ waitPolls \in {attempt, attempt + 1}
    /\ waitClock = 100 * attempt
    /\ waitFoundAt # 0 => (waitPolls = waitFoundAt /\ waitPc = "created")
    /\ waitPc = "created" => audioPublication = "audio"
    /\ audioStream # "null" => (audioPublication = "audio" /\ waitFoundAt # 0)
    /\ waitPc = "timeout" =>
          /\ waitPolls = 100
          /\ waitFoundAt = 0
          /\ audioStream = "null"

\* the timeout: 100 polls found nothing, although the track was published
\* during the last delay
C17_Witness ==
    /\ waitPc = "timeout"
    /\ waitPolls = 100
    /\ trackPublished
    /\ audioStream = "null"

(***************************************************************************)
(* Properties of the speech events                                         *)
(***************************************************************************)
SpEnds ==
    {m \in 1..Len(spSent) :
        spSent[m].type \in {"agent.speak_end", "agent.interrupt"}}

SpSpeaks == {k \in 1..Len(spSent) : spSent[k].type = "agent.speak"}

\* C18: in LiveAvatarAudioOutput and LiveAvatarForwarder an agent.speak_end
\* or agent.interrupt that is sent carries the event id of the agent.speak
\* chunks sent since the previous end or interrupt; afterwards a new event
\* id is in use, so agent.speak messages sent before and after a speak_end
\* or interrupt never share an event id.
C18_EventIdPerSegment ==
    /\ \A m \in SpEnds : \A k \in SpSpeaks :
          (k < m /\ \A e \in SpEnds : ~(k < e /\ e < m))
              => spSent[k].event_id = spSent[m].event_id
    /\ \A m \in SpEnds : \A k \in SpSpeaks : \A l \in SpSpeaks :
          (k < m /\ m < l) => spSent[k].event_id # spSent[l].event_id
    /\ \A m \in SpEnds : \A k \in 1..m : spSent[k].event_id # spEventId

\* audio sent, the segment ended, audio of the next segment sent, then an
\* interrupt
C18_Witness ==
    /\ Len(spSent) = 4
    /\ spSent[1].type = "agent.speak"
    /\ spSent[2].type = "agent.speak_end"
    /\ spSent[3].type = "agent.speak"
    /\ spSent[4].type = "agent.interrupt"
    /\ spSent[1].event_id # spSent[3].event_id

(***************************************************************************)
(* Properties of the cleanup on room disconnect                            *)
(***************************************************************************)
\* C19: session cleanup happens on room disconnect: when the room emits
\* 'disconnected' after a LiveAvatar session was started, the agent closes
\* the WebSocket (if it has one) and issues a /sessions/stop request
\* carrying that session's id; a failure of the stop request is caught
\* (the handler ends normally).
C19_CleanupOnDisconnect ==
    afterStart =>
        /\ laSocket # "OPEN"
        /\ laWs = "undefined"
        /\ \E k \in 1..Len(entryCalls) : entryCalls[k][1] = laSessionId

(***************************************************************************)
(* Properties of searchFlights                                             *)
(***************************************************************************)
\* C20: searchFlights applies the price filter: whenever a maxPrice value
\* is supplied (any number, not null / undefined), every flight in the
\* returned list has price <= maxPrice.
C20_PriceFilter ==
    (sfPc = "done" /\ sfArgs.maxPrice # <<>>) =>
        \A k \in 1..Len(sfResult[1].flights) :
            sfResult[1].flights[k].price <= sfArgs.maxPrice[1]

(***************************************************************************)
(* Properties of the debug server: utterances and unparsable messages      *)
(***************************************************************************)
\* the positions in the event log of the agent.speak events that carry an
\* audio text and the event id id
SpeaksOf(id) ==
    {k \in 1..Len(events) :
        IsSpeakWithAudio(events[k]) /\ events[k].event_id = id}

\* the audio bytes of the events at the positions ks, in arrival order
RECURSIVE AudioAt(_, _)
AudioAt(ks, k) ==
    IF k > Len(events) THEN <<>>
    ELSE (IF k \in ks THEN Base64Decode(events[k].audio) ELSE <<>>)
         \o AudioAt(ks, k + 1)

\* C23: the PCM file written at agent.speak_end for event id E contains
\* only the audio of agent.speak messages that carried event_id E (it is the
\* concatenation of chunks of E, in arrival order), for every order in
\* which messages of different event ids arrive on one connection.
C23_FileHoldsOnlyItsUtterance ==
    \A f \in 1..Len(files) :
        \E ks \in SUBSET SpeaksOf(files[f].name[3]) :
            files[f].content = AudioAt(ks, 1)

\* a step of the handler for a message that JSON.parse rejects: a message
\* arrived and nothing was recorded in the event log
HandlesUnparsable ==
    /\ received' = received + 1
    /\ events' = events

\* C24: a message the debug server cannot parse as JSON is caught and
\* logged and leaves the session state unchanged (events, audioChunks,
\* totalAudioBytes and speaking keep their values, no file is written), and
\* the session keeps processing later messages: the handler stays ready for
\* the next message.
C24_UnparsableIsSkipped ==
    /\ [][HandlesUnparsable =>
            /\ UNCHANGED <<events, audioChunks, totalAudioBytes, speaking>>
            /\ files' = files]_vars
    /\ [](received < MaxMsgs => ENABLED NextSrv)

\* an unparsable message arrived while a chunk was buffered and the agent
\* was speaking; the chunk was kept and the agent.speak_end that came later
\* saved it
C24_Witness ==
    /\ received = 4
    /\ Len(events) = 3
    /\ events[1].type = "agent.speak_started"
    /\ events[2].type = "agent.speak"
    /\ events[3].type = "agent.speak_end"
    /\ Len(files) = 1
    /\ files[1].content = <<255, 0, 16, 128>>

(***************************************************************************)
(* Range of the resampler output                                           *)
(***************************************************************************)
SetMax(S) == CHOOSE x \in S : \A y \in S : y <= x

SeqVals(seq) == {seq[k] : k \in 1..Len(seq)}

\* C26: every output sample of the resampler lies between the minimum and
\* the maximum of the input samples, so an input within the signed 16-bit
\* range never produces an output outside that range.
C26_OutputWithinInputRange ==
    (rsPc = "done" /\ rsSamples # <<>>) =>
        \A j \in 1..Len(rsOut) :
            /\ SetMin(SeqVals(rsSamples)) <= rsOut[j]
            /\ rsOut[j] <= SetMax(SeqVals(rsSamples))
            /\ rsOut[j] \in -32768..32767

\* an input that reaches the largest 16-bit value was resampled: the output
\* holds the extremes of the input and a value strictly between them
C26_Witness ==
    /\ rsPc = "done"
    /\ rsFn = "resample22To24"
    /\ Len(rsSamples) >= 3
    /\ rsSamples[Len(rsSamples)] = 32767
    /\ rsOut[1] = rsSamples[1]
    /\ rsOut[Len(rsOut)] = 32767
    /\ \E j \in 1..Len(rsOut) : rsOut[j] > rsSamples[1] /\ rsOut[j] < 32767

(***************************************************************************)
(* Properties of the start-up                                              *)
(***************************************************************************)
RequestOrder == <<"avatars", "token", "start">>

AllOk(n) ==
    /\ Len(suRequests) >= n
    /\ \A k \in 1..n : suRequests[k].outcome = "ok"

\* C21: startLiveAvatarSession issues its requests strictly in the order
\* avatars list, /sessions/token, /sessions/start; each later request is
\* issued only if the earlier one returned ok (and an avatar id is
\* available); the first non-ok response or a missing avatar id raises an
\* error after which no further request is made; a (sessionId, wsUrl)
\* result is returned only if all three requests succeeded.
C21_RequestOrder ==
    /\ Len(suRequests) <= 3
    /\ \A k \in 1..Len(suRequests) : suRequests[k].url = RequestOrder[k]
    /\ \A k \in 2..Len(suRequests) :
          suRequests[k - 1].outcome = "ok" /\ suAvatarId # ""
    /\ \A k \in 1..Len(suRequests) :
          suRequests[k].outcome # "ok" =>
              /\ k = Len(suRequests)
              /\ suPc = "failed"
              /\ suError # ""
    /\ (AllOk(1) /\ suPc \notin {"avatarsJson"} /\ suAvatarId = "") =>
          /\ Len(suRequests) = 1
          /\ suPc = "failed"
          /\ suError = "No avatar ID"
    /\ suReturned # <<>> =>
          /\ AllOk(3)
          /\ suReturned[1].sessionId = suSessionId
          /\ suReturned[1].wsUrl = suWsUrl

\* the complete agent found the avatar among the active ones, all three
\* requests returned ok and the function returned its result
C21_Witness ==
    /\ suAgent = "complete"
    /\ suConfig = ""
    /\ suAvatarId = "a2"
    /\ AllOk(3)
    /\ suReturned = <<[sessionId |-> LaSessionIdValue, wsUrl |-> "wss://avatar"]>>

StartSessionFailed ==
    \/ \E k \in 1..Len(suRequests) : suRequests[k].outcome # "ok"
    \/ suError \in {"No avatar ID", "toJwt failed"}

\* C22: in the complete agent's entry, the voice session is started only
\* after the LiveAvatar session has been started and the avatar WebSocket
\* has emitted 'open'; if starting the LiveAvatar session fails or the
\* socket emits 'error' before 'open', entry fails and the voice session
\* is never started.
C22_VoiceAfterAvatar ==
    suAgent = "complete" =>
        /\ voiceStarted =>
              /\ suReturned # <<>>
              /\ AllOk(3)
              /\ suEmitted # <<>>
              /\ suEmitted[1] = "open"
        /\ StartSessionFailed => (suPc = "failed" /\ ~voiceStarted)
        /\ (suEmitted # <<>> /\ suEmitted[1] = "error") =>
              (suPc = "failed" /\ ~voiceStarted)

\* the LiveAvatar session was started, the socket opened, and then the
\* voice session was started
C22_Witness ==
    /\ suAgent = "complete"
    /\ suPc = "done"
    /\ voiceStarted
    /\ suReturned # <<>>
    /\ suEmitted = <<"open">>

\* C25: LiveAvatarForwarder.start eventually settles: if the avatar
\* WebSocket emits 'error' (or closes) before it emits 'open',
\* connectWebSocket fails and start() ends with an error instead of
\* waiting forever.
C25_StartSettles ==
    (suAgent = "forwarder" /\ suEmitted # <<>> /\ suEmitted[1] \in {"error", "close"})
        => (suPc = "failed" /\ suError # "")

====
